---- MODULE Spec2Model ----
(***************************************************************************)
(* Per-connection streaming pipeline of the voice server                   *)
(* (server/server.py handle_connection, server/src/input_gate.py,          *)
(* server/src/job_queue.py).                                               *)
(*                                                                         *)
(* The specifications share the variables below:                           *)
(*   Spec       one connection session: the reader task, the STT worker,   *)
(*              the input gate and the STT job queue;                      *)
(*   LiveSpec   Spec with the fairness the thread scheduler gives;         *)
(*   GateSpec   InputGate called from every state of its three flags;      *)
(*   QueueSpec  JobQueue.put by a producer thread against a consumer get;  *)
(*   SendSpec   send_packet called by the reader and by the worker;        *)
(*   ServerSpec the accept loop: sessions one after another, with the      *)
(*              mode switch called from either mode;                       *)
(*   PingSpec   the session with the reader's send_pong followed step by   *)
(*              step;                                                      *)
(*   FnSpec     process_with_llm, clean_text, the cross-fade and           *)
(*              LLMClient.chat called on their inputs;                     *)
(*   SplitSpec  split_text_for_tts called on its inputs;                   *)
(*   EndSpec    the session entered in the END block with a full queue,    *)
(*              EndLiveSpec with the worker's fairness;                    *)
(*   ReplySpec  the session entered at the send loop of a reply of         *)
(*              several audio chunks;                                      *)
(*   RecvSpec   one call of recv_exact against a peer;                     *)
(*   AcceptSpec ConnectionManager.accept_loop with failing accepts and     *)
(*              handlers.                                                  *)
(***************************************************************************)
EXTENDS Integers, Sequences, FiniteSets, TLC

(* ------------------------------------------------------------------ *)
(* Program constants                                                  *)
(* ------------------------------------------------------------------ *)
SR == 16000
stt_maxsize == 4
SENTINEL == <<>>
NoSid == 0 - 1
Modes == {"robot", "agent"}
DECISION_ACCEPT == "accept"
DECISION_DROP == "drop"
DECISION_IGNORE == "ignore"

(* ------------------------------------------------------------------ *)
(* Bounds of the model                                                *)
(* ------------------------------------------------------------------ *)
\* START packets the device sends in one session
MaxStarts == 6
\* audio.max_seconds of the configuration (the repository default is 12)
max_seconds == 1
\* calls made on the gate in GateSpec
MaxCalls == 3
\* put calls made by the producer in QueueSpec
MaxPuts == 6

\* payload lengths of the AUDIO packets the device sends
PayloadSizes == {12000, 24000}
max_audio_bytes == max_seconds * SR * 2

(* ------------------------------------------------------------------ *)
(* InputGate: the three flags, every method atomic under self._lock   *)
(* ------------------------------------------------------------------ *)
InputGate == [busy |-> FALSE, stream_active |-> FALSE, drop_stream |-> FALSE]
GateStates == [busy : BOOLEAN, stream_active : BOOLEAN, drop_stream : BOOLEAN]

mark_busy(g) == [g EXCEPT !.busy = TRUE]

\* a slip: mark_idle also forgets that the open stream was rejected
mark_idle_clears_drop(g) == [g EXCEPT !.busy = FALSE, !.drop_stream = FALSE]

mark_idle(g) == [g EXCEPT !.busy = FALSE]

is_busy(g) == g.busy

\* a plausible slip: the gate looks at busy alone
start_stream_busy_only(g) ==
    IF g.busy
    THEN [gate |-> [g EXCEPT !.stream_active = TRUE, !.drop_stream = TRUE],
          ret |-> FALSE]
    ELSE [gate |-> [g EXCEPT !.stream_active = TRUE, !.drop_stream = FALSE],
          ret |-> TRUE]

\* a plausible slip: a busy gate no longer rejects
start_stream_ignores_busy(g) ==
    IF g.stream_active
    THEN [gate |-> [g EXCEPT !.stream_active = TRUE, !.drop_stream = TRUE],
          ret |-> FALSE]
    ELSE [gate |-> [g EXCEPT !.stream_active = TRUE, !.drop_stream = FALSE],
          ret |-> TRUE]

start_stream(g) ==
    IF g.busy \/ g.stream_active
    THEN [gate |-> [g EXCEPT !.stream_active = TRUE, !.drop_stream = TRUE],
          ret |-> FALSE]
    ELSE [gate |-> [g EXCEPT !.stream_active = TRUE, !.drop_stream = FALSE],
          ret |-> TRUE]

can_accept_audio(g) == g.stream_active /\ ~g.drop_stream

has_active_stream(g) == g.stream_active

\* a plausible slip: the drop flag survives the end of the stream
end_stream_keeps_drop(g) ==
    IF ~g.stream_active
    THEN [gate |-> g, ret |-> DECISION_IGNORE]
    ELSE [gate |-> [g EXCEPT !.stream_active = FALSE],
          ret |-> IF g.drop_stream THEN DECISION_DROP ELSE DECISION_ACCEPT]

end_stream(g) ==
    IF ~g.stream_active
    THEN [gate |-> g, ret |-> DECISION_IGNORE]
    ELSE [gate |-> [g EXCEPT !.stream_active = FALSE, !.drop_stream = FALSE],
          ret |-> IF g.drop_stream THEN DECISION_DROP ELSE DECISION_ACCEPT]

(* ------------------------------------------------------------------ *)
(* queue.Queue(maxsize) and JobQueue.put                              *)
(* ------------------------------------------------------------------ *)
\* Queue.put_nowait: raises Full on a full queue, else appends at the tail
put_nowait(q, item) ==
    IF Len(q) >= stt_maxsize
    THEN [full |-> TRUE, q |-> q]
    ELSE [full |-> FALSE, q |-> Append(q, item)]

\* a plausible slip: the eviction takes the newest item
get_nowait_newest(q) ==
    IF Len(q) = 0
    THEN [empty |-> TRUE, q |-> q, item |-> SENTINEL]
    ELSE [empty |-> FALSE, q |-> SubSeq(q, 1, Len(q) - 1), item |-> q[Len(q)]]

\* Queue.get_nowait: raises Empty on an empty queue, else removes the head
get_nowait(q) ==
    IF Len(q) = 0
    THEN [empty |-> TRUE, q |-> q, item |-> SENTINEL]
    ELSE [empty |-> FALSE, q |-> Tail(q), item |-> Head(q)]

\* One step of JobQueue.put(queue, item, drop_oldest) from position pc.
\* The three queue operations of one call are separate critical sections of
\* the queue's mutex, so another thread may act between two of them.
\*   "try"   queue.put_nowait(item)            job_queue.py:25
\*   "evict" queue.get_nowait()                job_queue.py:33
\*   "retry" queue.put_nowait(item)            job_queue.py:38
\* The result names the next position ("done" when the call returns), the
\* queue, the returned value and the evicted item, if any.
put(pc, q, item, drop_oldest) ==
    CASE pc = "try" ->
            LET r == put_nowait(q, item) IN
            IF ~r.full
            THEN [pc |-> "done", q |-> r.q, ret |-> TRUE, evicted |-> SENTINEL]
            ELSE IF ~drop_oldest
                 THEN [pc |-> "done", q |-> q, ret |-> FALSE, evicted |-> SENTINEL]
                 ELSE [pc |-> "evict", q |-> q, ret |-> FALSE, evicted |-> SENTINEL]
      [] pc = "evict" ->
            LET r == get_nowait(q) IN
            IF r.empty
            THEN [pc |-> "done", q |-> q, ret |-> FALSE, evicted |-> SENTINEL]
            ELSE [pc |-> "retry", q |-> r.q, ret |-> FALSE, evicted |-> r.item]
      [] OTHER ->
            LET r == put_nowait(q, item) IN
            IF ~r.full
            THEN [pc |-> "done", q |-> r.q, ret |-> TRUE, evicted |-> SENTINEL]
            ELSE [pc |-> "done", q |-> q, ret |-> FALSE, evicted |-> SENTINEL]

(* ------------------------------------------------------------------ *)
(* State                                                              *)
(* ------------------------------------------------------------------ *)
VARIABLES
    \* shared by the reader task and the STT worker of one connection
    input_gate,      \* InputGate: busy, stream_active, drop_stream
    stt_queue,       \* job_queue.stt_queue, head first
    state,           \* state = {"sid", "current_angle"}
    stop_event,      \* threading.Event
    current_mode,    \* module global current_mode
    \* reader task (body of handle_connection)
    rpc,             \* position of the reader
    audio_buf,       \* len(audio_buf)
    active_sid,      \* active_sid, NoSid for None
    put_pc,          \* position inside the running JobQueue.put call
    put_item,        \* the item of the running JobQueue.put call
    queued,          \* value returned by the last JobQueue.put call
    \* STT worker thread
    wpc,             \* position of the worker
    job,             \* the job being processed: <<sid, len(data)>>
    text,            \* bool(text) after clean_text
    chunks_left,     \* audio payloads of the reply still to send
    turn_out,        \* packets the worker wrote to the socket in this turn
    turn_in,         \* what the calls of this turn returned to the worker
    \* history of the session (observes, never decides)
    n_starts,        \* START packets received
    n_utt,           \* END packets that closed an active stream
    accepted,        \* sids of the jobs enqueued, in END order
    processed,       \* sids of the jobs dequeued by the worker, in order
    evicted,         \* sids of the jobs evicted by drop-oldest
    idle_calls,      \* mark_idle calls of the worker since its last dequeue
    \* InputGate called directly (GateSpec)
    gate_pre,        \* the flags before the last call
    gate_op,         \* the method called last
    gate_ret,        \* what it returned
    gate_calls,      \* calls made so far
    \* JobQueue.put called directly (QueueSpec)
    put_drop,        \* drop_oldest of the running call
    q_at_call,       \* the queue when the running call started
    gets_during,     \* consumer gets since the running call started
    last_evicted,    \* items the running call evicted
    n_puts,          \* put calls started so far
    got,             \* items the consumer has taken, in order
    \* ConnectionManager.accept_loop (ServerSpec)
    conn_no,         \* connections accepted so far
    starts_at_accept,\* n_starts when the current connection was accepted
    \* send_packet called directly (SendSpec)
    send_lock,       \* the thread holding send_lock, "none" when free
    wire,            \* the packets written to the socket, in order
    snd,             \* per thread: the running send_packet call
    msgs,            \* the send_packet calls made so far, in call order
    \* a function or loop called directly (FnSpec, RecvSpec, AcceptSpec)
    call             \* the running call: its name, arguments, position, result

gateVars == <<input_gate>>
queueVars == <<stt_queue, put_pc, put_item, queued>>
readerVars == <<rpc, audio_buf, active_sid, state, stop_event>>
workerVars == <<wpc, job, text, chunks_left, turn_out, turn_in, current_mode>>
histVars == <<n_starts, n_utt, accepted, processed, evicted, idle_calls>>
gateUnitVars == <<gate_pre, gate_op, gate_ret, gate_calls>>
queueUnitVars == <<put_drop, q_at_call, gets_during, last_evicted, n_puts, got>>
serverVars == <<conn_no, starts_at_accept>>
sendVars == <<send_lock, wire, snd, msgs>>
unitVars == <<call>>
restVars == <<serverVars, sendVars, unitVars>>
sessionVars == <<readerVars, workerVars, histVars>>
vars == <<gateVars, queueVars, sessionVars, gateUnitVars, queueUnitVars, restVars>>

\* the worker has made no call in this turn yet
NoTurn ==
    [qc |-> "none", dispatched |-> FALSE, mode |-> "none", reply_len |-> 0,
     clean |-> FALSE, tts_ok |-> FALSE, sent_ok |-> TRUE, switch |-> "none"]

\* handle_connection up to worker_thread.start() and the reader's locals
SessionInit ==
    /\ state = [sid |-> 0, current_angle |-> 90]
    /\ stop_event = FALSE
    /\ current_mode = "agent"
    /\ rpc = "recv"
    /\ audio_buf = 0
    /\ active_sid = NoSid
    /\ wpc = "loop"
    /\ job = SENTINEL
    /\ text = FALSE
    /\ chunks_left = 0
    /\ turn_out = <<>>
    /\ turn_in = NoTurn
    /\ n_starts = 0
    /\ n_utt = 0
    /\ accepted = <<>>
    /\ processed = <<>>
    /\ evicted = <<>>
    /\ idle_calls = 0

QueueInit ==
    /\ stt_queue = <<>>
    /\ put_pc = "done"
    /\ put_item = SENTINEL
    /\ queued = FALSE

GateUnitInit ==
    /\ gate_pre = InputGate
    /\ gate_op = "init"
    /\ gate_ret = "none"
    /\ gate_calls = 0

QueueUnitInit ==
    /\ put_drop = TRUE
    /\ q_at_call = <<>>
    /\ gets_during = 0
    /\ last_evicted = <<>>
    /\ n_puts = 0
    /\ got = <<>>

Threads == {"reader", "worker"}

\* no send_packet call is running
NoSend ==
    [pc |-> "idle", id |-> 0, ptype |-> 0, total |-> 0, audio_chunk |-> 0,
     offset |-> 0, ret |-> TRUE, err |-> "none"]

ServerInit ==
    /\ conn_no = 1
    /\ starts_at_accept = 0

SendInit ==
    /\ send_lock = "none"
    /\ wire = <<>>
    /\ snd = [t \in Threads |-> NoSend]
    /\ msgs = <<>>

\* no function is called directly
NoCall == [fn |-> "none"]

\* everything but the direct call
RecvRest == <<gateVars, queueVars, sessionVars, gateUnitVars, queueUnitVars,
              serverVars, sendVars>>

Init ==
    /\ input_gate = InputGate
    /\ QueueInit
    /\ SessionInit
    /\ GateUnitInit
    /\ QueueUnitInit
    /\ ServerInit
    /\ SendInit
    /\ call = NoCall

(* ------------------------------------------------------------------ *)
(* Reader task: the while True loop of handle_connection              *)
(* ------------------------------------------------------------------ *)
\* len(data) / 2 / SR < 0.45, in integers
IsShort(nbytes) == nbytes * 100 < 45 * 2 * SR

\* the PTYPE_END block up to the decision, on a buffer of nbytes bytes:
\* ignore and drop clear the reader's locals and go back to recv_exact;
\* accept builds the job (sid, data) and goes on to mark_busy
EndStream(nbytes) ==
    LET r == end_stream(input_gate) IN
    /\ input_gate' = r.gate
    /\ n_utt' = IF r.ret = DECISION_IGNORE THEN n_utt ELSE n_utt + 1
    /\ IF r.ret = DECISION_ACCEPT
       THEN /\ put_item' = <<IF active_sid = NoSid THEN state.sid ELSE active_sid,
                             nbytes>>
            /\ audio_buf' = nbytes
            /\ rpc' = "mark_busy"
            /\ UNCHANGED active_sid
       ELSE /\ audio_buf' = 0
            /\ active_sid' = NoSid
            /\ rpc' = "recv"
            /\ UNCHANGED put_item

\* PTYPE_PING: send_pong and continue; the PONG is written under send_lock
\* and touches nothing of the session
ReaderPing ==
    /\ rpc = "recv"
    /\ UNCHANGED vars

\* a slip: the rejected START still takes a sid
ReaderStartAlwaysAllocates ==
    /\ rpc = "recv"
    /\ n_starts < MaxStarts
    /\ LET r == start_stream(input_gate) IN
       /\ input_gate' = r.gate
       /\ audio_buf' = 0
       /\ state' = [state EXCEPT !.sid = @ + 1]
       /\ active_sid' = IF r.ret THEN state.sid + 1 ELSE NoSid
    /\ n_starts' = n_starts + 1
    /\ UNCHANGED <<queueVars, workerVars, stop_event, rpc, gateUnitVars, restVars,
                   queueUnitVars, n_utt, accepted, processed, evicted, idle_calls>>

\* a slip: the accepted START reuses the sid counter without advancing it
ReaderStartNoIncrement ==
    /\ rpc = "recv"
    /\ n_starts < MaxStarts
    /\ LET r == start_stream(input_gate) IN
       /\ input_gate' = r.gate
       /\ audio_buf' = 0
       /\ state' = [state EXCEPT !.sid = IF @ = 0 THEN 1 ELSE @]
       /\ active_sid' = IF r.ret THEN state'.sid ELSE NoSid
    /\ n_starts' = n_starts + 1
    /\ UNCHANGED <<queueVars, workerVars, stop_event, rpc, gateUnitVars, restVars,
                   queueUnitVars, n_utt, accepted, processed, evicted, idle_calls>>

\* PTYPE_START
ReaderStart ==
    /\ rpc = "recv"
    /\ n_starts < MaxStarts
    /\ LET r == start_stream(input_gate) IN
       /\ input_gate' = r.gate
       /\ audio_buf' = 0
       /\ IF ~r.ret
          THEN /\ active_sid' = NoSid
               /\ UNCHANGED state
          ELSE /\ state' = [state EXCEPT !.sid = @ + 1]
               /\ active_sid' = state.sid + 1
    /\ n_starts' = n_starts + 1
    /\ UNCHANGED <<queueVars, workerVars, stop_event, rpc, gateUnitVars, restVars,
                   queueUnitVars, n_utt, accepted, processed, evicted, idle_calls>>

\* a slip: the oversized buffer is kept and the stream goes on (the END
\* block is not entered from the AUDIO branch)
ReaderAudioNoForcedEnd ==
    /\ rpc = "recv"
    /\ \E plen \in PayloadSizes :
          IF ~has_active_stream(input_gate) \/ ~can_accept_audio(input_gate)
          THEN UNCHANGED <<gateVars, readerVars, put_item, n_utt>>
          ELSE /\ audio_buf' = audio_buf + plen
               /\ UNCHANGED <<gateVars, rpc, active_sid, state, stop_event,
                              put_item, n_utt>>
    /\ UNCHANGED <<stt_queue, put_pc, queued, workerVars, gateUnitVars, restVars,
                   queueUnitVars, n_starts, accepted, processed, evicted, idle_calls>>

\* PTYPE_AUDIO, with the forced END of an oversized buffer
ReaderAudio ==
    /\ rpc = "recv"
    /\ \E plen \in PayloadSizes :
          IF ~has_active_stream(input_gate) \/ ~can_accept_audio(input_gate)
          THEN UNCHANGED <<gateVars, readerVars, put_item, n_utt>>
          ELSE IF audio_buf + plen > max_audio_bytes
               THEN /\ EndStream(audio_buf + plen)
                    /\ UNCHANGED <<state, stop_event>>
               ELSE /\ audio_buf' = audio_buf + plen
                    /\ UNCHANGED <<gateVars, rpc, active_sid, state, stop_event,
                                   put_item, n_utt>>
    /\ UNCHANGED <<stt_queue, put_pc, queued, workerVars, gateUnitVars, restVars,
                   queueUnitVars, n_starts, accepted, processed, evicted, idle_calls>>

\* PTYPE_END: input_gate.end_stream() and the three decisions
ReaderEnd ==
    /\ rpc = "recv"
    /\ EndStream(audio_buf)
    /\ UNCHANGED <<stt_queue, put_pc, queued, state, stop_event, workerVars,
                   gateUnitVars, restVars, queueUnitVars, n_starts, accepted, processed,
                   evicted, idle_calls>>

\* any other packet type: no branch of the loop body matches
ReaderOther ==
    /\ rpc = "recv"
    /\ UNCHANGED vars

\* a slip: the job is enqueued without closing the gate
ReaderMarkBusySkipped ==
    /\ rpc = "mark_busy"
    /\ rpc' = "put"
    /\ put_pc' = "try"
    /\ UNCHANGED <<gateVars, stt_queue, put_item, queued, audio_buf, active_sid,
                   state, stop_event, workerVars, histVars, gateUnitVars, restVars,
                   queueUnitVars>>

\* input_gate.mark_busy() of an accepted END
ReaderMarkBusy ==
    /\ rpc = "mark_busy"
    /\ input_gate' = mark_busy(input_gate)
    /\ rpc' = "put"
    /\ put_pc' = "try"
    /\ UNCHANGED <<stt_queue, put_item, queued, audio_buf, active_sid, state,
                   stop_event, workerVars, histVars, gateUnitVars, restVars, queueUnitVars>>

\* one queue operation of job_queue.put(stt_queue, (sid, data), drop_oldest=True)
ReaderPut ==
    /\ rpc = "put"
    /\ LET r == put(put_pc, stt_queue, put_item, TRUE) IN
       /\ stt_queue' = r.q
       /\ put_pc' = r.pc
       /\ evicted' = IF r.evicted = SENTINEL THEN evicted
                     ELSE Append(evicted, r.evicted[1])
       /\ IF r.pc = "done"
          THEN /\ queued' = r.ret
               /\ rpc' = "put_done"
               /\ accepted' = IF r.ret THEN Append(accepted, put_item[1])
                              ELSE accepted
          ELSE UNCHANGED <<queued, rpc, accepted>>
    /\ UNCHANGED <<gateVars, put_item, audio_buf, active_sid, state, stop_event,
                   workerVars, gateUnitVars, restVars, queueUnitVars, n_starts, n_utt,
                   processed, idle_calls>>

\* a slip: the failed put marks the gate busy again in place of idle
ReaderPutDoneMarksBusy ==
    /\ rpc = "put_done"
    /\ input_gate' = IF ~queued THEN mark_busy(input_gate) ELSE input_gate
    /\ audio_buf' = 0
    /\ active_sid' = NoSid
    /\ rpc' = "recv"
    /\ UNCHANGED <<queueVars, state, stop_event, workerVars, histVars,
                   gateUnitVars, restVars, queueUnitVars>>

\* after put: release the gate when the job was not enqueued, clear the locals
ReaderPutDone ==
    /\ rpc = "put_done"
    /\ input_gate' = IF ~queued THEN mark_idle(input_gate) ELSE input_gate
    /\ audio_buf' = 0
    /\ active_sid' = NoSid
    /\ rpc' = "recv"
    /\ UNCHANGED <<queueVars, state, stop_event, workerVars, histVars,
                   gateUnitVars, restVars, queueUnitVars>>

\* recv_exact returns None: break, then stop_event.set()
ReaderDisconnect ==
    /\ rpc = "recv"
    /\ stop_event' = TRUE
    /\ rpc' = "sentinel"
    /\ UNCHANGED <<gateVars, queueVars, audio_buf, active_sid, state, workerVars,
                   histVars, gateUnitVars, restVars, queueUnitVars>>

\* job_queue.put(stt_queue, None, drop_oldest=False): one put_nowait
ReaderSentinel ==
    /\ rpc = "sentinel"
    /\ LET r == put("try", stt_queue, SENTINEL, FALSE) IN
       /\ stt_queue' = r.q
       /\ queued' = r.ret
    /\ rpc' = "join"
    /\ UNCHANGED <<gateVars, put_pc, put_item, audio_buf, active_sid, state,
                   stop_event, workerVars, histVars, gateUnitVars, restVars, queueUnitVars>>

\* worker_thread.join(timeout=2) returns: the worker has exited, or the two
\* seconds have passed while it is inside a call of its turn that takes longer
\* (transcription, LLM, synthesis, the paced audio send); an idle worker sees
\* stop_event or the sentinel within the one second of its get
ReaderJoin ==
    /\ rpc = "join"
    /\ wpc \in {"exit", "transcribe", "dispatch", "send"}
    /\ rpc' = "closed"
    /\ UNCHANGED <<gateVars, queueVars, audio_buf, active_sid, state, stop_event,
                   workerVars, histVars, gateUnitVars, restVars, queueUnitVars>>

(* ------------------------------------------------------------------ *)
(* STT worker: worker() of handle_connection                          *)
(* ------------------------------------------------------------------ *)
SERVO_MIN == 0
SERVO_MAX == 180
NoAngle == 0 - 1
\* angles an LLM reply may propose, before clamping
RawAngles == {0 - 20, 45, 200}
\* len() of the string AgentMode.generate_response returns
ReplyLens == {2, 12}

Max(a, b) == IF a >= b THEN a ELSE b
Min(a, b) == IF a <= b THEN a ELSE b
\* a slip: the angle is passed on as proposed
clamp_identity(value, lo, hi) == value

\* utils.clamp
clamp(value, lo, hi) == Max(lo, Min(hi, value))

DEFAULT_ANGLE_CENTER == 90
DEFAULT_STEP == 20

\* an action dict: NoAngle stands for a dict without the key "angle", mode
\* "none" for one without the key "mode"
Action(action, angle, mode) == [action |-> action, angle |-> angle, mode |-> mode]

\* UNSURE_POLICY == "NOOP"
Noop == Action("NOOP", NoAngle, "none")

\* the first entry of actions_config the text matches, by keyword or pattern:
\* its "action", its "angle" (or the captured integer; NoAngle for None), its
\* "value" and its "mode"; NoCommand when no entry matches
NoCommand == [action |-> "none", angle |-> NoAngle, value |-> 0, mode |-> "none"]
Commands ==
    {NoCommand,
     [action |-> "STOP", angle |-> NoAngle, value |-> 0, mode |-> "none"],
     [action |-> "SERVO_INC", angle |-> NoAngle, value |-> DEFAULT_STEP, mode |-> "none"],
     [action |-> "SERVO_DEC", angle |-> NoAngle, value |-> DEFAULT_STEP, mode |-> "none"]}
    \cup {[action |-> "SERVO_SET", angle |-> a, value |-> 0, mode |-> "none"] :
             a \in RawAngles \cup {NoAngle}}
    \cup {[action |-> "SWITCH_MODE", angle |-> NoAngle, value |-> 0, mode |-> m] :
             m \in Modes}

\* RobotMode.process_text(text, current_angle)[0]; has_text is bool(text.strip())
process_text(has_text, cmd, current_angle) ==
    IF ~has_text \/ cmd.action = "none"
    THEN Noop
    ELSE CASE cmd.action = "SWITCH_MODE" -> Action("SWITCH_MODE", NoAngle, cmd.mode)
           [] cmd.action = "SERVO_SET" ->
                 LET angle == IF cmd.angle = NoAngle THEN DEFAULT_ANGLE_CENTER
                              ELSE cmd.angle
                 IN Action("SERVO_SET", clamp(angle, SERVO_MIN, SERVO_MAX), "none")
           [] cmd.action = "SERVO_INC" ->
                 Action("SERVO_SET",
                        clamp(current_angle + cmd.value, SERVO_MIN, SERVO_MAX), "none")
           [] cmd.action = "SERVO_DEC" ->
                 Action("SERVO_SET",
                        clamp(current_angle - cmd.value, SERVO_MIN, SERVO_MAX), "none")
           [] OTHER -> Action(cmd.action, NoAngle, "none")

\* what the LLM path meets: llm.chat raises ("raise"); the response holds no
\* {...} ("nojson", also the "" that LLMClient.chat returns after an HTTP
\* error); the {...} is not JSON ("badjson"); or it is a JSON object with an
\* action, with or without a mode, and with an angle that is absent, a
\* number, or not a number
NoReply == [kind |-> "nojson", action |-> "none", angle_is |-> "absent",
            angle |-> NoAngle, mode |-> "none"]
LlmReplies ==
    {NoReply, [NoReply EXCEPT !.kind = "raise"], [NoReply EXCEPT !.kind = "badjson"]}
    \cup {[kind |-> "json", action |-> a, angle_is |-> "absent", angle |-> NoAngle,
           mode |-> "none"] : a \in {"NOOP", "STOP", "SERVO_SET"}}
    \cup {[kind |-> "json", action |-> a, angle_is |-> "number", angle |-> n,
           mode |-> "none"] : a \in {"STOP", "SERVO_SET"}, n \in RawAngles}
    \cup {[kind |-> "json", action |-> "SERVO_SET", angle_is |-> "string",
           angle |-> NoAngle, mode |-> "none"]}
    \cup {[kind |-> "json", action |-> "SWITCH_MODE", angle_is |-> "absent",
           angle |-> NoAngle, mode |-> m] : m \in {"robot", "agent", "other"}}

\* _refine_stt and _determine_action: the action they return, or raised
determine_action(reply) ==
    CASE reply.kind = "raise" -> [raised |-> TRUE, action |-> Noop]
      [] reply.kind = "nojson" -> [raised |-> FALSE, action |-> Noop]
      [] reply.kind = "badjson" -> [raised |-> TRUE, action |-> Noop]
      [] OTHER ->
            IF reply.angle_is = "absent"
            THEN [raised |-> FALSE,
                  action |-> Action(reply.action, NoAngle, reply.mode)]
            ELSE IF reply.angle_is = "string"
                 THEN [raised |-> TRUE, action |-> Noop]
                 ELSE [raised |-> FALSE,
                       action |-> Action(reply.action,
                                         clamp(reply.angle, SERVO_MIN, SERVO_MAX),
                                         reply.mode)]

\* RobotMode.process_with_llm(text, current_angle)[1] for a non-empty text
process_with_llm(has_llm, reply, cmd, current_angle) ==
    IF ~has_llm
    THEN process_text(TRUE, cmd, current_angle)
    ELSE LET r == determine_action(reply) IN
         IF r.raised
         THEN process_text(TRUE, cmd, current_angle)
         ELSE r.action

\* what RobotMode.process_with_llm may return as robot_action
RobotActions(current_angle) ==
    {process_with_llm(has_llm, reply, cmd, current_angle) :
        has_llm \in BOOLEAN, reply \in LlmReplies, cmd \in Commands}

\* a Python bool as it is written into the JSON of a packet
Bool(b) == IF b THEN "True" ELSE "False"

\* a packet of the turn: "absent" for a dict without the key
Packet(ptype, action, angle) ==
    [ptype |-> ptype, action |-> action, sid |-> job[1], angle |-> angle,
     meaningful |-> "absent", recognized |-> "absent"]

\* action["meaningful"] = ..., action["recognized"] = ...
Flagged(pkt, meaningful, recognized) ==
    [pkt EXCEPT !.meaningful = Bool(meaningful), !.recognized = Bool(recognized)]

\* turn_out after send_packet under send_lock: the packet is on the wire when
\* the socket write succeeded
Sent(out, ok, pkt) == IF ok THEN Append(out, pkt) ELSE out

\* the NOOP of a short, silent or untranscribed job
NoopAction == Flagged(Packet("CMD", "NOOP", NoAngle), FALSE, FALSE)

\* a slip: the switch to agent mode sends the wiggle as well as the audio
handle_mode_switch_both(new_mode, tts_ok, ok) ==
    IF new_mode \notin Modes \/ new_mode = current_mode
    THEN UNCHANGED <<current_mode, turn_out>>
    ELSE /\ current_mode' = new_mode
         /\ turn_out' =
               Sent(IF new_mode = "agent"
                    THEN Sent(turn_out, tts_ok /\ ok,
                              Packet("AUDIO_OUT", "notify", NoAngle))
                    ELSE turn_out,
                    ok, Packet("CMD", "WIGGLE", NoAngle))

\* a slip: the target is not checked against the two modes
handle_mode_switch_any_target(new_mode, tts_ok, ok) ==
    IF new_mode = current_mode
    THEN UNCHANGED <<current_mode, turn_out>>
    ELSE /\ current_mode' = new_mode
         /\ turn_out' =
               IF new_mode = "agent"
               THEN Sent(turn_out, tts_ok /\ ok, Packet("AUDIO_OUT", "notify", NoAngle))
               ELSE Sent(turn_out, ok, Packet("CMD", "WIGGLE", NoAngle))

\* _handle_mode_switch(new_mode): the new mode and the notification
handle_mode_switch(new_mode, tts_ok, ok) ==
    IF new_mode \notin Modes \/ new_mode = current_mode
    THEN UNCHANGED <<current_mode, turn_out>>
    ELSE /\ current_mode' = new_mode
         /\ turn_out' =
               IF new_mode = "agent"
               THEN Sent(turn_out, tts_ok /\ ok, Packet("AUDIO_OUT", "notify", NoAngle))
               ELSE Sent(turn_out, ok, Packet("CMD", "WIGGLE", NoAngle))

\* a slip: `while True`, the worker leaves only through the sentinel
WorkerLoopForever ==
    /\ wpc = "loop"
    /\ wpc' = "get"
    /\ UNCHANGED <<gateVars, queueVars, readerVars, job, text, chunks_left,
                   turn_out, turn_in, current_mode, histVars, gateUnitVars, restVars, queueUnitVars>>

\* while not stop_event.is_set()
WorkerLoop ==
    /\ wpc = "loop"
    /\ wpc' = IF stop_event THEN "exit" ELSE "get"
    /\ UNCHANGED <<gateVars, queueVars, readerVars, job, text, chunks_left,
                   turn_out, turn_in, current_mode, histVars, gateUnitVars, restVars, queueUnitVars>>

\* stt_queue.get(timeout=1) returns an item: the sentinel ends the worker,
\* a job starts a turn
WorkerGet ==
    /\ wpc = "get"
    /\ Len(stt_queue) > 0
    /\ LET r == get_nowait(stt_queue) IN
       /\ stt_queue' = r.q
       /\ IF r.item = SENTINEL
          THEN /\ wpc' = "exit"
               /\ UNCHANGED <<job, turn_out, turn_in, processed, idle_calls>>
          ELSE /\ wpc' = "turn"
               /\ job' = r.item
               /\ turn_out' = <<>>
               /\ turn_in' = NoTurn
               /\ processed' = Append(processed, r.item[1])
               /\ idle_calls' = 0
    /\ UNCHANGED <<gateVars, put_pc, put_item, queued, readerVars, text,
                   chunks_left, current_mode, n_starts, n_utt, accepted, evicted,
                   gateUnitVars, restVars, queueUnitVars>>

\* stt_queue.get(timeout=1) raises Empty: continue
WorkerGetTimeout ==
    /\ wpc = "get"
    /\ Len(stt_queue) = 0
    /\ wpc' = "loop"
    /\ UNCHANGED <<gateVars, queueVars, readerVars, job, text, chunks_left,
                   turn_out, turn_in, current_mode, histVars, gateUnitVars, restVars, queueUnitVars>>

\* what the two gates of the turn found: sec < 0.45 is tested first, rms_db
\* only for a job that is long enough; sent_ok is what send_action returned
QCIn(silent, ok) ==
    [turn_in EXCEPT !.qc = IF IsShort(job[2]) THEN "short"
                           ELSE IF silent THEN "silent" ELSE "pass",
                    !.sent_ok = IF (IsShort(job[2]) \/ silent) /\ current_mode = "robot"
                                THEN ok ELSE TRUE]

\* a slip: the short or silent job leaves the turn outside the try block
WorkerQCSkipsFinally ==
    /\ wpc = "turn"
    /\ \E silent \in BOOLEAN, ok \in BOOLEAN :
          IF IsShort(job[2]) \/ silent
          THEN /\ turn_out' = IF current_mode = "robot"
                              THEN Sent(turn_out, ok, NoopAction)
                              ELSE turn_out
               /\ turn_in' = QCIn(silent, ok)
               /\ wpc' = "loop"
          ELSE /\ wpc' = "transcribe"
               /\ turn_in' = QCIn(silent, ok)
               /\ UNCHANGED turn_out
    /\ UNCHANGED <<gateVars, queueVars, readerVars, job, text, chunks_left,
                   current_mode, histVars, gateUnitVars, restVars, queueUnitVars>>

\* a slip: the NOOP of a gated job is sent in either mode
WorkerQCAnyMode ==
    /\ wpc = "turn"
    /\ \E silent \in BOOLEAN, ok \in BOOLEAN :
          IF IsShort(job[2]) \/ silent
          THEN /\ turn_out' = Sent(turn_out, ok, NoopAction)
               /\ turn_in' = QCIn(silent, ok)
               /\ wpc' = "finally"
          ELSE /\ wpc' = "transcribe"
               /\ turn_in' = QCIn(silent, ok)
               /\ UNCHANGED turn_out
    /\ UNCHANGED <<gateVars, queueVars, readerVars, job, text, chunks_left,
                   current_mode, histVars, gateUnitVars, restVars, queueUnitVars>>

\* the duration check and the quality check (rms_db < -45) of a job
WorkerQC ==
    /\ wpc = "turn"
    /\ \E silent \in BOOLEAN, ok \in BOOLEAN :
          IF IsShort(job[2]) \/ silent
          THEN /\ turn_out' = IF current_mode = "robot"
                              THEN Sent(turn_out, ok, NoopAction)
                              ELSE turn_out
               /\ turn_in' = QCIn(silent, ok)
               /\ wpc' = "finally"
          ELSE /\ wpc' = "transcribe"
               /\ turn_in' = QCIn(silent, ok)
               /\ UNCHANGED turn_out
    /\ UNCHANGED <<gateVars, queueVars, readerVars, job, text, chunks_left,
                   current_mode, histVars, gateUnitVars, restVars, queueUnitVars>>

\* stt_engine.safe_transcribe and clean_text: raises, or yields a text that is
\* empty or not
WorkerTranscribe ==
    /\ wpc = "transcribe"
    /\ \E outcome \in {"raise", "empty", "text"} :
          IF outcome = "raise"
          THEN /\ wpc' = "finally"
               /\ UNCHANGED text
          ELSE /\ wpc' = "dispatch"
               /\ text' = (outcome = "text")
    /\ UNCHANGED <<gateVars, queueVars, readerVars, job, chunks_left, turn_out,
                   current_mode, turn_in, histVars, gateUnitVars, restVars, queueUnitVars>>

\* a slip: the SWITCH_MODE action is sent to the device like any other
DispatchRobotForwardsSwitch(act, tts_ok, ok) ==
    IF ~text
    THEN /\ turn_out' = Sent(turn_out, ok, NoopAction)
         /\ UNCHANGED <<current_mode, state>>
    ELSE /\ state' = IF act.action # "NOOP" /\ act.angle # NoAngle
                     THEN [state EXCEPT !.current_angle = act.angle]
                     ELSE state
         /\ turn_out' = Sent(turn_out, ok,
                             Flagged(Packet("CMD", act.action, act.angle),
                                     act.action # "NOOP", text))
         /\ UNCHANGED current_mode

\* the robot branch of the dispatch, server.py:250-276
DispatchRobot(act, tts_ok, ok) ==
    IF ~text
    THEN /\ turn_out' = Sent(turn_out, ok, NoopAction)
         /\ UNCHANGED <<current_mode, state>>
    ELSE IF act.action = "SWITCH_MODE"
         THEN /\ handle_mode_switch(act.mode, tts_ok, ok)
              /\ UNCHANGED state
         ELSE /\ state' = IF act.action # "NOOP" /\ act.angle # NoAngle
                          THEN [state EXCEPT !.current_angle = act.angle]
                          ELSE state
              /\ turn_out' = Sent(turn_out, ok,
                                  Flagged(Packet("CMD", act.action, act.angle),
                                          act.action # "NOOP", text))
              /\ UNCHANGED current_mode

\* the agent branch of the dispatch up to the send loop, server.py:278-347.
\* generate_response returns one string; "response, intent = <string>"
\* unpacks it only when it has exactly two characters, into two strings of one
\* character, and raises ValueError otherwise. The intent is then never
\* "mode_robot" and the response never empty.
DispatchAgent(reply_len, clean, tts_ok) ==
    /\ UNCHANGED <<current_mode, state, turn_out>>
    /\ IF ~text \/ reply_len # 2
       THEN /\ wpc' = "finally"
            /\ UNCHANGED chunks_left
       ELSE LET tts_text_chunks == IF clean THEN 1 ELSE 0
                audio_payloads == IF tts_ok THEN tts_text_chunks ELSE 0
            IN IF audio_payloads = 0
               THEN /\ wpc' = "finally"
                    /\ UNCHANGED chunks_left
               ELSE /\ wpc' = "send"
                    /\ chunks_left' = audio_payloads

\* what a call of _handle_mode_switch(new_mode) in this turn was given and got:
\* the target, whether text_to_audio returned audio, whether the write went out
SwitchIn(base, new_mode, tts_ok, ok) ==
    IF new_mode \notin Modes \/ new_mode = current_mode
    THEN [base EXCEPT !.switch = new_mode]
    ELSE IF new_mode = "agent"
         THEN [base EXCEPT !.switch = new_mode, !.tts_ok = tts_ok,
                           !.sent_ok = IF tts_ok THEN ok ELSE TRUE]
         ELSE [base EXCEPT !.switch = new_mode, !.sent_ok = ok]

\* what the calls of the dispatch returned, for the calls the branch makes
TurnIn(act, reply_len, clean, tts_ok, ok) ==
    LET base == [turn_in EXCEPT !.dispatched = TRUE, !.mode = current_mode] IN
    IF current_mode = "robot"
    THEN IF text /\ act.action = "SWITCH_MODE"
         THEN SwitchIn(base, act.mode, tts_ok, ok)
         ELSE [base EXCEPT !.sent_ok = ok]
    ELSE IF ~text
         THEN base
         ELSE IF reply_len # 2 \/ ~clean
              THEN [base EXCEPT !.reply_len = reply_len]
              ELSE [base EXCEPT !.reply_len = reply_len, !.clean = TRUE,
                                !.tts_ok = tts_ok]

\* the dispatch on current_mode, server.py:250-347
WorkerDispatch ==
    /\ wpc = "dispatch"
    /\ \E act \in RobotActions(state.current_angle), reply_len \in ReplyLens,
          clean \in BOOLEAN, tts_ok \in BOOLEAN, ok \in BOOLEAN :
          /\ turn_in' = TurnIn(act, reply_len, clean, tts_ok, ok)
          /\ IF current_mode = "robot"
             THEN /\ DispatchRobot(act, tts_ok, ok)
                  /\ wpc' = "finally"
                  /\ UNCHANGED chunks_left
             ELSE DispatchAgent(reply_len, clean, tts_ok)
    /\ UNCHANGED <<gateVars, queueVars, rpc, audio_buf, active_sid, stop_event,
                   job, text, histVars, gateUnitVars, restVars, queueUnitVars>>

\* a slip: no break, the loop goes on to the next chunk after a failed send
WorkerSendAudioNoBreak ==
    /\ wpc = "send"
    /\ \E ok \in BOOLEAN :
          /\ turn_out' = Sent(turn_out, ok, Packet("AUDIO_OUT", "reply", NoAngle))
          /\ turn_in' = [turn_in EXCEPT !.sent_ok = ok]
          /\ IF chunks_left > 1
             THEN /\ chunks_left' = chunks_left - 1
                  /\ UNCHANGED wpc
             ELSE /\ chunks_left' = 0
                  /\ wpc' = "finally"
    /\ UNCHANGED <<gateVars, queueVars, readerVars, job, text, current_mode,
                   histVars, gateUnitVars, restVars, queueUnitVars>>

\* one send_audio of the send loop, server.py:349-360
WorkerSendAudio ==
    /\ wpc = "send"
    /\ \E ok \in BOOLEAN :
          /\ turn_out' = Sent(turn_out, ok, Packet("AUDIO_OUT", "reply", NoAngle))
          /\ turn_in' = [turn_in EXCEPT !.sent_ok = ok]
          /\ IF ok /\ chunks_left > 1
             THEN /\ chunks_left' = chunks_left - 1
                  /\ UNCHANGED wpc
             ELSE /\ chunks_left' = 0
                  /\ wpc' = "finally"
    /\ UNCHANGED <<gateVars, queueVars, readerVars, job, text, current_mode,
                   histVars, gateUnitVars, restVars, queueUnitVars>>

\* an exception of the try body caught by "except Exception"
WorkerRaise ==
    /\ wpc \in {"turn", "transcribe", "dispatch", "send"}
    /\ wpc' = "finally"
    /\ chunks_left' = 0
    /\ UNCHANGED <<gateVars, queueVars, readerVars, job, text, turn_out,
                   current_mode, turn_in, histVars, gateUnitVars, restVars, queueUnitVars>>

\* finally: input_gate.mark_idle(), then back to the loop condition
WorkerFinally ==
    /\ wpc = "finally"
    /\ input_gate' = mark_idle(input_gate)
    /\ idle_calls' = idle_calls + 1
    /\ wpc' = "loop"
    /\ turn_in' = NoTurn
    /\ UNCHANGED <<queueVars, readerVars, job, text, chunks_left, turn_out,
                   current_mode, n_starts, n_utt, accepted, processed, evicted,
                   gateUnitVars, restVars, queueUnitVars>>

(* ------------------------------------------------------------------ *)
(* One connection session                                             *)
(* ------------------------------------------------------------------ *)
Reader ==
    \/ ReaderPing
    \/ ReaderStart
    \/ ReaderAudio
    \/ ReaderEnd
    \/ ReaderOther
    \/ ReaderMarkBusy
    \/ ReaderPut
    \/ ReaderPutDone
    \/ ReaderDisconnect
    \/ ReaderSentinel
    \/ ReaderJoin

Worker ==
    \/ WorkerLoop
    \/ WorkerGet
    \/ WorkerGetTimeout
    \/ WorkerQC
    \/ WorkerTranscribe
    \/ WorkerDispatch
    \/ WorkerSendAudio
    \/ WorkerRaise
    \/ WorkerFinally

Next == Reader \/ Worker

Spec == Init /\ [][Next]_vars

\* the fairness of the thread scheduler: a worker that can take a step takes
\* it (its external calls return), and the reader finishes the END it is
\* handling; the device is free to stay silent
LiveSpec ==
    /\ Init
    /\ [][Next]_vars
    /\ WF_vars(Worker)
    /\ WF_vars(ReaderMarkBusy \/ ReaderPut \/ ReaderPutDone)

(* ------------------------------------------------------------------ *)
(* InputGate called directly, from every state of its flags           *)
(* ------------------------------------------------------------------ *)

GateInit ==
    /\ input_gate \in GateStates
    /\ QueueInit
    /\ SessionInit
    /\ GateUnitInit
    /\ QueueUnitInit
    /\ ServerInit
    /\ SendInit
    /\ call = NoCall

\* one call: the flags before it, the method, what it returned, the flags after
GateCall(op, ret, after) ==
    /\ gate_calls < MaxCalls
    /\ gate_pre' = input_gate
    /\ gate_op' = op
    /\ gate_ret' = ret
    /\ input_gate' = after
    /\ gate_calls' = gate_calls + 1
    /\ UNCHANGED <<queueVars, sessionVars, queueUnitVars, restVars>>

GateMarkBusy == GateCall("mark_busy", "None", mark_busy(input_gate))

GateMarkIdle == GateCall("mark_idle", "None", mark_idle(input_gate))

GateIsBusy == GateCall("is_busy", Bool(is_busy(input_gate)), input_gate)

GateStartStream ==
    GateCall("start_stream", Bool(start_stream(input_gate).ret),
             start_stream(input_gate).gate)

GateCanAcceptAudio ==
    GateCall("can_accept_audio", Bool(can_accept_audio(input_gate)), input_gate)

GateHasActiveStream ==
    GateCall("has_active_stream", Bool(has_active_stream(input_gate)), input_gate)

GateEndStream ==
    GateCall("end_stream", end_stream(input_gate).ret, end_stream(input_gate).gate)

GateNext ==
    \/ GateMarkBusy
    \/ GateMarkIdle
    \/ GateIsBusy
    \/ GateStartStream
    \/ GateCanAcceptAudio
    \/ GateHasActiveStream
    \/ GateEndStream

GateSpec == GateInit /\ [][GateNext]_vars

(* ------------------------------------------------------------------ *)
(* JobQueue.put called by a producer thread, get by a consumer thread *)
(* ------------------------------------------------------------------ *)
\* the producer calls job_queue.put(stt_queue, item, drop_oldest)
ProducerCall ==
    /\ put_pc = "done"
    /\ n_puts < MaxPuts
    /\ \E drop_oldest \in BOOLEAN : put_drop' = drop_oldest
    /\ put_item' = <<n_puts + 1, 0>>
    /\ put_pc' = "try"
    /\ q_at_call' = stt_queue
    /\ gets_during' = 0
    /\ last_evicted' = <<>>
    /\ n_puts' = n_puts + 1
    /\ UNCHANGED <<gateVars, stt_queue, queued, sessionVars, gateUnitVars, restVars, got>>

\* the next queue operation of the running put call
ProducerStep ==
    /\ put_pc # "done"
    /\ LET r == put(put_pc, stt_queue, put_item, put_drop) IN
       /\ stt_queue' = r.q
       /\ put_pc' = r.pc
       /\ queued' = r.ret
       /\ last_evicted' = IF r.evicted = SENTINEL THEN last_evicted
                          ELSE Append(last_evicted, r.evicted)
    /\ UNCHANGED <<gateVars, put_item, sessionVars, gateUnitVars, restVars, put_drop,
                   q_at_call, gets_during, n_puts, got>>

\* the consumer's stt_queue.get returns the head
ConsumerGet ==
    /\ Len(stt_queue) > 0
    /\ LET r == get_nowait(stt_queue) IN
       /\ stt_queue' = r.q
       /\ got' = Append(got, r.item)
    /\ gets_during' = gets_during + 1
    /\ UNCHANGED <<gateVars, put_pc, put_item, queued, sessionVars, gateUnitVars, restVars,
                   put_drop, q_at_call, last_evicted, n_puts>>

QueueNext == ProducerCall \/ ProducerStep \/ ConsumerGet

QueueSpec == Init /\ [][QueueNext]_vars

(* ------------------------------------------------------------------ *)
(* Properties                                                         *)
(* ------------------------------------------------------------------ *)
InTurn == wpc \in {"turn", "transcribe", "dispatch", "send", "finally"}
JobsQueued == Len(SelectSeq(stt_queue, LAMBDA j : j # SENTINEL))
InFlight == JobsQueued + (IF InTurn THEN 1 ELSE 0)
\* turns the worker has completed (its mark_idle included)
TurnsDone == Len(processed) - (IF InTurn THEN 1 ELSE 0)
Range(s) == {s[i] : i \in 1..Len(s)}
StrictlyIncreasing(s) == \A i \in 1..Len(s), j \in 1..Len(s) : i < j => s[i] < s[j]
IsPrefix(s, t) == Len(s) <= Len(t) /\ \A i \in 1..Len(s) : s[i] = t[i]
\* a stream rejected at START and not yet ended
Dropping == input_gate.stream_active /\ input_gate.drop_stream

\* C1: in every reachable state of a session the utterance jobs waiting in
\* the STT queue plus the job the worker is processing number at most one.
C1_OneInFlight == InFlight <= 1

\* C1 witness: a turn is in flight while the stream of a second utterance is
\* being received, and dropped
C1_Witness == InFlight = 1 /\ InTurn /\ Dropping /\ n_starts >= 2

\* C2: a START that arrives while the gate is busy or a stream is active
\* allocates no sid; while that stream lasts no AUDIO is buffered, its END
\* enqueues no job, the reader goes back to reading and does not close the
\* session because of it; every CMD or AUDIO_OUT sent belongs to the job of
\* an accepted stream.
C2_RejectedStart ==
    (rpc = "recv" /\ n_starts' = n_starts + 1
        /\ (input_gate.busy \/ input_gate.stream_active))
    => /\ state'.sid = state.sid
       /\ active_sid' = NoSid
       /\ audio_buf' = 0
       /\ Dropping'
       /\ rpc' = "recv"

C2_WhileDropping ==
    Dropping
    => /\ audio_buf = 0 /\ audio_buf' = 0
       /\ state'.sid = state.sid
       /\ accepted' = accepted
       /\ put_item' = put_item
       /\ JobsQueued' <= JobsQueued
       /\ rpc' \in {"recv", "sentinel", "join", "closed"}
       /\ (rpc = "recv" /\ rpc' # "recv") => stop_event'

C2_OutputsOfAcceptedOnly ==
    \A i \in 1..Len(turn_out) :
        /\ turn_out[i].sid \in Range(accepted)
        /\ turn_out[i].sid <= state.sid

C2_RejectedStreamIsInert ==
    [][C2_RejectedStart /\ C2_WhileDropping /\ C2_OutputsOfAcceptedOnly']_vars

\* C2 witness: two streams were received to their END, the second one
\* rejected: one sid, one job, and the reader is reading again
C2_Witness ==
    /\ n_starts = 2 /\ n_utt = 2 /\ state.sid = 1 /\ Len(accepted) = 1
    /\ rpc = "recv" /\ ~input_gate.stream_active /\ InTurn

\* C3: the worker dequeues the jobs in the order their ENDs were accepted,
\* the sids of the dequeued jobs strictly increase, and the stream being
\* collected carries the sid its START allocated.
C3_ProcessedInOrder ==
    /\ IsPrefix(processed, accepted)
    /\ StrictlyIncreasing(processed)
    /\ StrictlyIncreasing(accepted)
    /\ (rpc = "recv" /\ can_accept_audio(input_gate)) => active_sid = state.sid
    /\ rpc \in {"mark_busy", "put"} => put_item[1] = active_sid /\ active_sid # NoSid
    /\ InTurn => job[1] = processed[Len(processed)]

\* C3 witness: three jobs were processed
C3_Witness == Len(processed) = 3 /\ InTurn

\* C4: no turn calls mark_idle twice and every finished turn has called it
\* once; a turn in progress always comes to its end; in a live session
\* busy leads to not busy, and a START on a gate that is neither busy nor in
\* a stream is accepted.
C4_IdleOnce ==
    /\ idle_calls <= 1
    /\ (processed # <<>> /\ ~InTurn) => idle_calls = 1
    /\ (InTurn /\ wpc # "finally") => idle_calls = 0 /\ input_gate.busy
    /\ (~input_gate.busy /\ ~input_gate.stream_active)
          => start_stream(input_gate).ret

C4_EveryTurnReleasesGate ==
    /\ []C4_IdleOnce
    /\ (InTurn ~> ~InTurn)
    /\ ((input_gate.busy /\ ~stop_event) ~> (~input_gate.busy \/ stop_event))

\* C4 witness: a turn ended, the gate was released and the next START was
\* accepted
C4_Witness ==
    /\ Len(processed) = 1 /\ ~InTurn /\ idle_calls = 1
    /\ state.sid = 2 /\ can_accept_audio(input_gate) /\ ~stop_event

\* C5: start_stream on a gate that is busy or has an active stream sets
\* stream_active and drop and returns False; otherwise it sets stream_active,
\* clears drop and returns True; busy is never changed.
C5_StartStream ==
    gate_op = "start_stream"
    => /\ input_gate.busy = gate_pre.busy
       /\ input_gate.stream_active
       /\ IF gate_pre.busy \/ gate_pre.stream_active
          THEN input_gate.drop_stream /\ gate_ret = "False"
          ELSE ~input_gate.drop_stream /\ gate_ret = "True"

\* C5 witness: a start_stream on an idle gate with a stream already active
C5_Witness ==
    /\ gate_op = "start_stream" /\ ~gate_pre.busy /\ gate_pre.stream_active
    /\ ~gate_pre.drop_stream

\* C6: end_stream without an active stream returns ignore and changes no
\* flag; otherwise it clears stream_active and drop and returns drop when
\* drop was set, else accept; can_accept_audio is stream_active and not
\* drop; neither changes busy.
C6_EndStream ==
    /\ gate_op = "end_stream"
       => /\ input_gate.busy = gate_pre.busy
          /\ IF ~gate_pre.stream_active
             THEN gate_ret = DECISION_IGNORE /\ input_gate = gate_pre
             ELSE /\ ~input_gate.stream_active
                  /\ ~input_gate.drop_stream
                  /\ gate_ret = IF gate_pre.drop_stream THEN DECISION_DROP
                                ELSE DECISION_ACCEPT
    /\ gate_op = "can_accept_audio"
       => /\ input_gate = gate_pre
          /\ gate_ret = Bool(gate_pre.stream_active /\ ~gate_pre.drop_stream)

\* C6 witness: an end_stream on a busy gate whose stream was being dropped
C6_Witness ==
    /\ gate_op = "end_stream" /\ gate_pre.busy /\ gate_pre.stream_active
    /\ gate_pre.drop_stream

\* the reader is collecting at most the one stream the gate holds active
AtMostOneStream ==
    /\ rpc = "recv" => (active_sid # NoSid <=> can_accept_audio(input_gate))
    /\ audio_buf > 0 => active_sid # NoSid
    /\ input_gate.drop_stream => input_gate.stream_active

\* C7 as stated: in every reachable state in which the gate is busy,
\* start_stream returns rejected and end_stream returns drop, and at most
\* one stream is active.
C7_BusyMeansDrop ==
    /\ input_gate.busy
       => /\ ~start_stream(input_gate).ret
          /\ end_stream(input_gate).ret = DECISION_DROP
    /\ AtMostOneStream

\* C7 amended: in every reachable state in which the gate is busy,
\* start_stream returns rejected and end_stream never returns accept: it
\* returns drop when a stream is active and ignore when none is; at most one
\* stream is active.
C7_BusyNeverAccepts ==
    /\ input_gate.busy
       => /\ ~start_stream(input_gate).ret
          /\ end_stream(input_gate).ret =
                IF input_gate.stream_active THEN DECISION_DROP
                ELSE DECISION_IGNORE
    /\ AtMostOneStream

\* C7 witness: the gate is busy with a turn and no stream is active
C7_Witness == input_gate.busy /\ ~input_gate.stream_active /\ InTurn

\* six utterances were received to their END while the worker has not
\* finished a turn
SixWhileSlow == n_utt = 6 /\ TurnsDone = 0 /\ rpc = "recv"

\* C8 as stated: with a slow worker and capacity 4, six utterances in a row
\* are all accepted, the 5th and 6th evict the 1st and 2nd, and four jobs
\* are left to process.
C8_Backpressure ==
    SixWhileSlow
    => /\ Len(accepted) = 6
       /\ evicted = <<1, 2>>
       /\ JobsQueued + Len(processed) = 4

\* C8 amended: with a slow worker, of the utterances submitted in a row at
\* most one is accepted and enqueued: every later one is dropped by the
\* input gate, no job is evicted and at most one job is processed.
C8_GateBeforeBackpressure ==
    /\ TurnsDone = 0 => Len(accepted) <= 1 /\ Len(processed) <= 1
    /\ Len(accepted) <= TurnsDone + 1
    /\ evicted = <<>>
    /\ JobsQueued <= 1

\* C8 witness: six utterances in a row with a slow worker, one accepted
C8_Witness == SixWhileSlow /\ Len(accepted) = 1 /\ InTurn

\* C9: the queue never holds more than stt_maxsize items and keeps the
\* order of the puts; a put with drop_oldest on a full queue, with no get in
\* between, removes exactly the head and appends the item at the tail.
C9_CapacityAndOrder ==
    /\ Len(stt_queue) <= stt_maxsize
    /\ StrictlyIncreasing([i \in 1..Len(stt_queue) |-> stt_queue[i][1]])
    /\ (put_pc = "done" /\ n_puts > 0 /\ put_drop /\ gets_during = 0
            /\ Len(q_at_call) = stt_maxsize)
       => /\ queued
          /\ last_evicted = <<Head(q_at_call)>>
          /\ stt_queue = Append(Tail(q_at_call), put_item)

\* C9 witness: a put evicted the head of a full queue
C9_Witness ==
    /\ put_pc = "done" /\ put_drop /\ gets_during = 0
    /\ Len(q_at_call) = stt_maxsize /\ Len(last_evicted) = 1

\* C10: a put with drop_oldest returns True with the item enqueued as the
\* newest element, whatever the consumer does meanwhile; it evicts only from
\* a full queue, and then one item.
C10_PutAlwaysSucceeds ==
    (put_pc = "done" /\ n_puts > 0 /\ put_drop)
    => /\ queued
       /\ \/ (stt_queue # <<>> /\ stt_queue[Len(stt_queue)] = put_item)
          \/ put_item \in Range(got)
       /\ Len(last_evicted) <= 1
       /\ Len(last_evicted) = 1 => Len(q_at_call) = stt_maxsize

AudioOut(out) == {i \in 1..Len(out) : out[i].ptype = "AUDIO_OUT"}
AudioOutEnd(out) == {i \in 1..Len(out) : out[i].ptype = "AUDIO_OUT_END"}

\* C12: when the worker has sent the whole audio of a reply, exactly one
\* AUDIO_OUT_END follows the last AUDIO_OUT packet of the turn, before the
\* worker takes the next job.
C12_ReplyTerminated ==
    (wpc = "finally" /\ turn_in.sent_ok /\ AudioOut(turn_out) # {})
    => /\ Cardinality(AudioOutEnd(turn_out)) = 1
       /\ turn_out[Len(turn_out)].ptype = "AUDIO_OUT_END"

\* C13: an agent-mode turn with a transcript, a non-empty reply of the
\* adapter whose intent is not mode_robot, chunks left after sanitization,
\* audio from the synthesis and a working socket has sent an AUDIO_OUT packet
\* when it ends.
C13_AgentReplyIsSpoken ==
    (wpc = "finally" /\ turn_in.dispatched /\ turn_in.mode = "agent" /\ text
        /\ turn_in.reply_len > 0 /\ turn_in.switch = "none"
        /\ (turn_in.reply_len = 2 => turn_in.clean /\ turn_in.tts_ok)
        /\ turn_in.sent_ok)
    => AudioOut(turn_out) # {}

\* C20: when handle_connection has returned, so that the accept loop closes
\* the socket and accepts the next connection, the worker thread of the
\* session has terminated.
C20_WorkerEndsBeforeClose == rpc = "closed" => wpc = "exit"

(* ------------------------------------------------------------------ *)
(* send_packet called by the reader task and by the worker            *)
(* ------------------------------------------------------------------ *)
PTYPE_PONG == 31
PTYPE_CMD == 17
PTYPE_AUDIO_OUT == 18
\* the chunk size of the non-audio branch
DATA_CHUNK == 60000
\* the default of the audio_chunk parameter
AUDIO_CHUNK == 1024
\* the largest value the "H" of struct.pack("<BH", ...) takes
U16_MAX == 65535

\* send_packet calls made in SendSpec
MaxMsgs == 2
\* a payload is at most this many times the chunk size
MaxChunks == 3

\* len(payload) of the calls
Totals == {0, 1, 2, 5, 2049, 60001, 65536, 131073}
\* audio_chunk of the calls
AudioChunks == {2, 3, AUDIO_CHUNK, U16_MAX, U16_MAX + 1}

\* a slip: the header is packed big-endian
pack_BH_big_endian(ptype, n) ==
    IF n > U16_MAX
    THEN [err |-> TRUE, bytes |-> <<>>]
    ELSE [err |-> FALSE, bytes |-> <<ptype % 256, n \div 256, n % 256>>]

\* struct.pack("<BH", ptype & 0xFF, n): struct.error when n does not fit
pack_BH(ptype, n) ==
    IF n > U16_MAX
    THEN [err |-> TRUE, bytes |-> <<>>]
    ELSE [err |-> FALSE, bytes |-> <<ptype % 256, n % 256, n \div 256>>]

\* struct.unpack("<H", raw_len) of the receiving side
unpack_H(lo, hi) == lo + 256 * hi

\* a slip: the chunk is not aligned to the 16-bit samples
audio_chunk_size_unaligned(remaining, audio_chunk) == Min(remaining, audio_chunk)

\* chunk_size of the AUDIO_OUT branch
audio_chunk_size(remaining, audio_chunk) ==
    LET chunk_size == Min(remaining, audio_chunk) IN
    IF chunk_size % 2 # 0 THEN chunk_size - 1 ELSE chunk_size

\* chunk_size of the branch of the other packet types
data_chunk_size(remaining) == Min(remaining, DATA_CHUNK)

\* payload[a : b] of a payload of total bytes, as the positions it covers
Slice(total, a, b) == [from |-> Min(a, total), to |-> Max(Min(a, total), Min(b, total))]

NoPkt == <<>>

\* send_packet returns: the "with lock" block has been left
Returned(s, ret, err) == [s EXCEPT !.pc = "idle", !.ret = ret, !.err = err]

\* One conn.sendall of _send, or its return without one, for the call s;
\* fail says whether the socket write raises. The result is the call after
\* the step and the packet written, if any.
send_step(s, fail) ==
    IF s.total = 0
    THEN IF fail
         THEN [s |-> Returned(s, FALSE, "socket"), pkt |-> NoPkt]
         ELSE [s |-> Returned(s, TRUE, "none"),
               pkt |-> [id |-> s.id, header |-> pack_BH(s.ptype, 0).bytes,
                        from |-> 0, to |-> 0]]
    ELSE LET remaining == s.total - s.offset IN
         IF s.ptype = PTYPE_AUDIO_OUT /\ remaining < 2
         THEN [s |-> Returned(s, TRUE, "none"), pkt |-> NoPkt]
         ELSE LET chunk_size == IF s.ptype = PTYPE_AUDIO_OUT
                                THEN audio_chunk_size(remaining, s.audio_chunk)
                                ELSE data_chunk_size(remaining)
                  chunk == Slice(s.total, s.offset, s.offset + chunk_size)
                  header == pack_BH(s.ptype, chunk.to - chunk.from)
                  offset == s.offset + chunk_size
              IN IF header.err
                 THEN [s |-> Returned(s, FALSE, "struct"), pkt |-> NoPkt]
                 ELSE IF fail
                      THEN [s |-> Returned(s, FALSE, "socket"), pkt |-> NoPkt]
                      ELSE [s |-> IF offset < s.total
                                  THEN [s EXCEPT !.offset = offset]
                                  ELSE Returned([s EXCEPT !.offset = offset],
                                                TRUE, "none"),
                            pkt |-> [id |-> s.id, header |-> header.bytes,
                                     from |-> chunk.from, to |-> chunk.to]]

\* a slip: the PONG carries a payload
SendInputsPongPayload(t) ==
    IF t = "reader"
    THEN {[ptype |-> PTYPE_PONG, total |-> 2, audio_chunk |-> AUDIO_CHUNK]}
    ELSE {[ptype |-> PTYPE_CMD, total |-> n, audio_chunk |-> AUDIO_CHUNK] :
             n \in {k \in Totals : k <= MaxChunks * DATA_CHUNK}}
         \cup {m \in [ptype : {PTYPE_AUDIO_OUT}, total : Totals,
                      audio_chunk : AudioChunks] :
                  m.total <= MaxChunks * m.audio_chunk}

\* the arguments of the calls: send_pong by the reader, send_packet with a
\* CMD or an AUDIO_OUT payload by the worker
SendInputs(t) ==
    IF t = "reader"
    THEN {[ptype |-> PTYPE_PONG, total |-> 0, audio_chunk |-> AUDIO_CHUNK]}
    ELSE {[ptype |-> PTYPE_CMD, total |-> n, audio_chunk |-> AUDIO_CHUNK] :
             n \in {k \in Totals : k <= MaxChunks * DATA_CHUNK}}
         \cup {m \in [ptype : {PTYPE_AUDIO_OUT}, total : Totals,
                      audio_chunk : AudioChunks] :
                  m.total <= MaxChunks * m.audio_chunk}

\* send_packet(conn, ptype, payload, lock=send_lock, audio_chunk) is called
SendCall(t) ==
    /\ snd[t].pc = "idle"
    /\ Len(msgs) < MaxMsgs
    /\ \E m \in SendInputs(t) :
          /\ snd' = [snd EXCEPT ![t] =
                        [pc |-> "acquire", id |-> Len(msgs) + 1, ptype |-> m.ptype,
                         total |-> m.total, audio_chunk |-> m.audio_chunk,
                         offset |-> 0, ret |-> TRUE, err |-> "none"]]
          /\ msgs' = Append(msgs, [thread |-> t, ptype |-> m.ptype,
                                   total |-> m.total,
                                   audio_chunk |-> m.audio_chunk])
    /\ UNCHANGED <<gateVars, queueVars, sessionVars, gateUnitVars, queueUnitVars,
                   serverVars, unitVars, send_lock, wire>>

\* a slip: the call is made without the lock
SendAcquireNoLock(t) ==
    /\ snd[t].pc = "acquire"
    /\ snd' = [snd EXCEPT ![t].pc = "send"]
    /\ UNCHANGED <<gateVars, queueVars, sessionVars, gateUnitVars, queueUnitVars,
                   serverVars, unitVars, send_lock, wire, msgs>>

\* "with lock": the thread waits until send_lock is free and takes it
SendAcquire(t) ==
    /\ snd[t].pc = "acquire"
    /\ send_lock = "none"
    /\ send_lock' = t
    /\ snd' = [snd EXCEPT ![t].pc = "send"]
    /\ UNCHANGED <<gateVars, queueVars, sessionVars, gateUnitVars, queueUnitVars,
                   serverVars, unitVars, wire, msgs>>

\* a slip: an exception leaves the lock held
SendStepKeepsLockOnError(t) ==
    /\ snd[t].pc = "send"
    /\ \E fail \in BOOLEAN :
          LET r == send_step(snd[t], fail) IN
          /\ snd' = [snd EXCEPT ![t] = r.s]
          /\ wire' = IF r.pkt = NoPkt THEN wire ELSE Append(wire, r.pkt)
          /\ send_lock' = IF r.s.pc = "idle" /\ r.s.ret /\ send_lock = t
                          THEN "none" ELSE send_lock
    /\ UNCHANGED <<gateVars, queueVars, sessionVars, gateUnitVars, queueUnitVars,
                   serverVars, unitVars, msgs>>

\* one step of _send under the lock; leaving the "with" block, by return or
\* by exception, releases the lock
SendStep(t) ==
    /\ snd[t].pc = "send"
    /\ \E fail \in BOOLEAN :
          LET r == send_step(snd[t], fail) IN
          /\ snd' = [snd EXCEPT ![t] = r.s]
          /\ wire' = IF r.pkt = NoPkt THEN wire ELSE Append(wire, r.pkt)
          /\ send_lock' = IF r.s.pc = "idle" /\ send_lock = t
                          THEN "none" ELSE send_lock
    /\ UNCHANGED <<gateVars, queueVars, sessionVars, gateUnitVars, queueUnitVars,
                   serverVars, unitVars, msgs>>

SendNext ==
    \/ \E t \in Threads : SendCall(t)
    \/ \E t \in Threads : SendAcquire(t)
    \/ \E t \in Threads : SendStep(t)

SendSpec == Init /\ [][SendNext]_vars

\* the packets of message id on the wire, in the order written
PacketsOf(id) == SelectSeq(wire, LAMBDA p : p.id = id)
\* the payload length a receiver reads from the header of a packet
LengthOf(p) == unpack_H(p.header[2], p.header[3])
\* the packets ps carry the first n bytes of the payload, in order, once each
Covers(ps, n) ==
    IF ps = <<>> THEN n = 0
    ELSE /\ ps[1].from = 0
         /\ \A i \in 1..(Len(ps) - 1) : ps[i].to = ps[i + 1].from
         /\ ps[Len(ps)].to = n
\* the call of thread t has returned and no socket write of it failed
ReturnedClean(t) == snd[t].pc = "idle" /\ snd[t].id > 0 /\ snd[t].err # "socket"

\* what C11 asks of the AUDIO_OUT calls whose audio_chunk is in range
AudioPacketization(range) ==
    /\ \A i \in 1..Len(wire) :
          LET m == msgs[wire[i].id] IN
          (m.ptype = PTYPE_AUDIO_OUT /\ m.audio_chunk \in range)
          => /\ LengthOf(wire[i]) = wire[i].to - wire[i].from
             /\ LengthOf(wire[i]) % 2 = 0
             /\ LengthOf(wire[i]) <= m.audio_chunk
    /\ \A t \in Threads :
          (ReturnedClean(t) /\ snd[t].ptype = PTYPE_AUDIO_OUT
              /\ snd[t].audio_chunk \in range)
          => /\ snd[t].ret
             /\ Covers(PacketsOf(snd[t].id), snd[t].total - (snd[t].total % 2))

\* C11 as stated: for every payload and every audio_chunk >= 2 each AUDIO_OUT
\* packet has an even payload length of at most audio_chunk, and the packets
\* of a call carry the whole payload but a trailing odd byte.
C11_AudioPacketization == AudioPacketization(AudioChunks)

\* C11 amended: the same for every audio_chunk from 2 to 65535, the lengths
\* the two-byte length field of the header can carry.
C11_AudioPacketizationInRange == AudioPacketization(2..U16_MAX)

\* C11 witness: a payload of odd length went out in two or more packets
C11_Witness ==
    /\ ReturnedClean("worker") /\ snd["worker"].ptype = PTYPE_AUDIO_OUT
    /\ snd["worker"].total % 2 = 1 /\ snd["worker"].audio_chunk = AUDIO_CHUNK
    /\ Len(PacketsOf(snd["worker"].id)) >= 2

\* C14: the packets one send_packet call writes are contiguous on the wire:
\* between two packets of a message there is no packet of another message.
C14_NoInterleaving ==
    \A i \in 1..Len(wire), j \in 1..Len(wire), k \in 1..Len(wire) :
        (i < j /\ j < k /\ wire[i].id = wire[k].id) => wire[j].id = wire[i].id

\* C14 witness: the reader waits with its PONG while the worker is in the
\* middle of a message of several packets
C14_Witness ==
    /\ snd["reader"].pc = "acquire" /\ send_lock = "worker"
    /\ snd["worker"].pc = "send" /\ snd["worker"].offset > 0
    /\ snd["worker"].offset < snd["worker"].total

\* C15: a call whose socket write failed has returned False, nothing is
\* raised to the caller, the lock is held only by a thread inside _send, and
\* a thread waiting for the lock can take it as soon as no thread is inside.
C15_SendFailureReturnsFalse ==
    /\ \A t \in Threads :
          /\ (snd[t].pc = "idle" /\ snd[t].err # "none") => ~snd[t].ret
          /\ snd[t].pc \in {"idle", "acquire", "send"}
          /\ (send_lock = t) <=> (snd[t].pc = "send")
    /\ (\A t \in Threads : snd[t].pc # "send") => send_lock = "none"

\* C15 witness: a write of the worker failed and the reader's PONG, sent
\* afterwards, went out whole
C15_Witness ==
    /\ snd["worker"].pc = "idle" /\ snd["worker"].err = "socket"
    /\ snd["reader"].pc = "idle" /\ snd["reader"].id > snd["worker"].id
    /\ snd["reader"].ret /\ Len(PacketsOf(snd["reader"].id)) = 1

\* C16: every packet of a message that is not AUDIO_OUT is a header of the
\* type byte and the little-endian length of its payload, at most 60000; the
\* payloads of a call that returned without a socket failure, in order, are
\* the input; an empty payload goes out as one header of three bytes with
\* length 0.
C16_Framing ==
    /\ \A i \in 1..Len(wire) :
          LET m == msgs[wire[i].id] IN
          m.ptype # PTYPE_AUDIO_OUT
          => /\ Len(wire[i].header) = 3
             /\ wire[i].header[1] = m.ptype
             /\ LengthOf(wire[i]) = wire[i].to - wire[i].from
             /\ LengthOf(wire[i]) <= DATA_CHUNK
    /\ \A t \in Threads :
          (ReturnedClean(t) /\ snd[t].ptype # PTYPE_AUDIO_OUT)
          => /\ snd[t].ret
             /\ Covers(PacketsOf(snd[t].id), snd[t].total)
             /\ snd[t].total = 0
                => /\ Len(PacketsOf(snd[t].id)) = 1
                   /\ PacketsOf(snd[t].id)[1].header = <<snd[t].ptype, 0, 0>>

\* C16 witness: a CMD payload longer than two chunks went out whole
C16_Witness ==
    /\ ReturnedClean("worker") /\ snd["worker"].ptype = PTYPE_CMD
    /\ snd["worker"].total > 2 * DATA_CHUNK
    /\ Len(PacketsOf(snd["worker"].id)) = 3

(* ------------------------------------------------------------------ *)
(* The accept loop: one session after another, and the mode switch    *)
(* called from either mode                                            *)
(* ------------------------------------------------------------------ *)
\* connections the server accepts
MaxConns == 2
\* START packets the device sends over all connections of ServerSpec
MaxServerStarts == 3

\* the values _handle_mode_switch is called with: the two modes and any other
SwitchTargets == {"robot", "agent", "other"}

\* _handle_mode_switch(new_mode) called by the worker for the job in hand,
\* followed by "continue", as at its two call sites (robot_action.get("mode")
\* after a SWITCH_MODE action, "robot" after the intent mode_robot)
WorkerModeSwitch ==
    /\ wpc = "dispatch"
    /\ text
    /\ \E new_mode \in SwitchTargets, tts_ok \in BOOLEAN, ok \in BOOLEAN :
          /\ handle_mode_switch(new_mode, tts_ok, ok)
          /\ turn_in' = SwitchIn([turn_in EXCEPT !.dispatched = TRUE,
                                                !.mode = current_mode],
                                 new_mode, tts_ok, ok)
    /\ wpc' = "finally"
    /\ UNCHANGED <<gateVars, queueVars, readerVars, job, text, chunks_left,
                   histVars, gateUnitVars, queueUnitVars, restVars>>

\* handle_connection has returned: accept_loop closes the socket, accepts
\* the next connection and calls handle_connection, which builds a new lock,
\* queue, state, gate and worker thread; the module global current_mode is
\* not touched. A worker that outlived the join keeps the objects of its own
\* session; its remaining steps are not followed here.
ServerAccept ==
    /\ rpc = "closed"
    /\ conn_no < MaxConns
    /\ conn_no' = conn_no + 1
    /\ starts_at_accept' = n_starts
    /\ input_gate' = InputGate
    /\ stt_queue' = <<>>
    /\ put_pc' = "done"
    /\ put_item' = SENTINEL
    /\ queued' = FALSE
    /\ state' = [sid |-> 0, current_angle |-> 90]
    /\ stop_event' = FALSE
    /\ rpc' = "recv"
    /\ audio_buf' = 0
    /\ active_sid' = NoSid
    /\ wpc' = "loop"
    /\ job' = SENTINEL
    /\ text' = FALSE
    /\ chunks_left' = 0
    /\ turn_out' = <<>>
    /\ turn_in' = NoTurn
    /\ n_utt' = 0
    /\ accepted' = <<>>
    /\ processed' = <<>>
    /\ evicted' = <<>>
    /\ idle_calls' = 0
    /\ UNCHANGED <<current_mode, n_starts, gateUnitVars, queueUnitVars, sendVars,
                   unitVars>>

\* the sessions of the server, with MaxServerStarts START packets in all
ServerSession == Next /\ n_starts' <= MaxServerStarts

ServerNext == ServerSession \/ WorkerModeSwitch \/ ServerAccept

ServerSpec == Init /\ [][ServerNext]_vars

\* the step is a call of _handle_mode_switch
SwitchStep == turn_in.switch = "none" /\ turn_in'.switch # "none"
\* the packets the step wrote
Emitted == SubSeq(turn_out', Len(turn_out) + 1, Len(turn_out'))

\* C17: a call of handle_mode_switch with the current mode as target leaves
\* the mode and sends nothing; a call that changes the mode sends packets of
\* one kind only, the notification audio when the new mode is agent and the
\* WIGGLE command when it is robot, one packet when the synthesis and the
\* write succeed, and never both.
C17_ModeSwitchNotifiesOnce ==
    [][SwitchStep =>
        LET target == turn_in'.switch IN
        IF target = current_mode
        THEN current_mode' = current_mode /\ turn_out' = turn_out
        ELSE target \in Modes
             => /\ current_mode' = target
                /\ IsPrefix(turn_out, turn_out')
                /\ Len(Emitted) <= 1
                /\ \A i \in 1..Len(Emitted) :
                      IF target = "agent"
                      THEN Emitted[i].ptype = "AUDIO_OUT"
                           /\ Emitted[i].action = "notify"
                      ELSE Emitted[i].ptype = "CMD"
                           /\ Emitted[i].action = "WIGGLE"
                /\ ((target = "agent" => turn_in'.tts_ok) /\ turn_in'.sent_ok)
                   => Len(Emitted) = 1]_vars

\* C17 witness: after a switch to robot mode, a switch back to agent mode
\* sent the notification audio
C17_Witness ==
    /\ turn_in.switch = "agent" /\ turn_in.mode = "robot"
    /\ current_mode = "agent" /\ turn_out # <<>>
    /\ turn_out[Len(turn_out)].action = "notify"

\* C18: the mode is agent when the server starts and always robot or agent;
\* it changes only in a call of handle_mode_switch, to the target of the
\* call; a call with any other target changes nothing and sends nothing.
C18_ModeOnlyBySwitch ==
    /\ current_mode = "agent"
    /\ [](current_mode \in Modes)
    /\ [][/\ current_mode' # current_mode
             => SwitchStep /\ turn_in'.switch = current_mode'
          /\ (SwitchStep /\ turn_in'.switch \notin Modes)
             => current_mode' = current_mode /\ turn_out' = turn_out]_vars

\* C18 witness: in robot mode, a switch to a target that is no mode was
\* ignored
C18_Witness ==
    /\ turn_in.switch = "other" /\ current_mode = "robot" /\ wpc = "finally"

MaxPingStarts == 2

\* ptype == PTYPE_PING: the reader calls send_pong(conn, send_lock), which is
\* send_packet(conn, PTYPE_PONG, b"", lock), and continues with the next
\* packet whatever it returned
ReaderPong ==
    /\ rpc = "recv"
    /\ \/ SendCall("reader")
       \/ SendAcquire("reader")
       \/ SendStep("reader")

\* the reader reads no packet before send_pong has returned
PingSession ==
    \/ snd["reader"].pc = "idle" /\ Reader /\ n_starts' <= MaxPingStarts
    \/ Worker

PingNext == ReaderPong \/ PingSession

PingSpec == Init /\ [][PingNext]_vars

\* C21: handling a PING, in whatever state the reader and the worker are,
\* changes the reader's send_pong call and nothing of the session: the gate
\* flags, the audio buffer, the active sid, the sid counter, the job queue
\* and the mode stay as they were. The call sends PTYPE_PONG with an empty
\* payload, and when it returns True exactly one packet has been written,
\* the 3-byte header <<0x1F, 0, 0>>; when the socket write raises, none.
C21_PingSendsOnePong ==
    [][snd'["reader"] # snd["reader"] =>
          /\ UNCHANGED <<gateVars, queueVars, sessionVars>>
          /\ snd'["reader"].ptype = PTYPE_PONG
          /\ snd'["reader"].total = 0
          /\ IF snd'["reader"].pc = "idle" /\ snd'["reader"].ret
             THEN wire' = Append(wire, [id |-> snd["reader"].id,
                                        header |-> <<PTYPE_PONG, 0, 0>>,
                                        from |-> 0, to |-> 0])
             ELSE wire' = wire]_vars

\* a PONG has been written while a turn is busy and a stream is open
C21_Witness ==
    /\ snd["reader"].pc = "idle"
    /\ snd["reader"].id >= 1
    /\ snd["reader"].ret
    /\ \E i \in 1..Len(wire) : wire[i].id = snd["reader"].id
    /\ input_gate.busy
    /\ input_gate.stream_active
    /\ wpc = "transcribe"

(* ------------------------------------------------------------------ *)
(* The robot branch (ServerSpec)                                      *)
(* ------------------------------------------------------------------ *)

\* the turn in hand runs, or started, in robot mode
RobotTurn == current_mode = "robot" \/ turn_in.mode = "robot"

\* C22: every packet the worker writes carries the sid of the job it has
\* dequeued, so a stream whose job is never dequeued gets no response; and a
\* turn processed in robot mode writes at most one packet for that sid, one
\* CMD or one notification audio, never both and never two.
C22_OneResponsePerStream ==
    /\ \A i \in 1..Len(turn_out) :
          /\ job # SENTINEL
          /\ turn_out[i].sid = job[1]
          /\ job[1] \in Range(processed)
          /\ job[1] \in Range(accepted)
    /\ RobotTurn => Len(turn_out) <= 1

\* C22 witness: a robot-mode turn has ended with its one CMD on the wire
C22_Witness ==
    /\ wpc = "finally"
    /\ turn_in.mode = "robot" /\ turn_in.dispatched /\ turn_in.switch = "none"
    /\ Len(turn_out) = 1
    /\ turn_out[1].ptype = "CMD" /\ turn_out[1].action = "SERVO_SET"

\* C23: a dequeued job shorter than 0.45 s, or one whose audio is silent
\* (rms_db < -45), goes to the finally block without the transcriber being
\* called; in robot mode the step writes one CMD NOOP with the job's sid,
\* meaningful False and recognized False (none when the socket write fails),
\* in agent mode it writes nothing.
C23_GatedJob ==
    /\ [](wpc \in {"transcribe", "dispatch", "send"}
          => ~IsShort(job[2]) /\ turn_in.qc = "pass")
    /\ [][wpc = "turn" /\ turn_in'.qc \in {"short", "silent"} =>
            /\ wpc' = "finally"
            /\ UNCHANGED <<text, current_mode, state>>
            /\ Emitted = IF current_mode = "robot" /\ turn_in'.sent_ok
                         THEN <<[ptype |-> "CMD", action |-> "NOOP",
                                 sid |-> job[1], angle |-> NoAngle,
                                 meaningful |-> "False",
                                 recognized |-> "False"]>>
                         ELSE <<>>]_vars

\* C23 witness: a silent job in robot mode got its NOOP
C23_Witness ==
    /\ wpc = "finally"
    /\ turn_in.qc = "silent"
    /\ current_mode = "robot"
    /\ Len(turn_out) = 1 /\ turn_out[1].action = "NOOP"

C25_SwitchModeNotForwarded ==
    /\ [](\A i \in 1..Len(turn_out) : turn_out[i].action # "SWITCH_MODE")
    /\ [][SwitchStep /\ current_mode = "robot" =>
            /\ current_mode' = IF turn_in'.switch \in Modes
                               THEN turn_in'.switch ELSE current_mode
            /\ \A i \in 1..Len(Emitted) : Emitted[i].ptype # "CMD"]_vars

\* C25 witness: in robot mode a SWITCH_MODE decision for agent was consumed
C25_Witness ==
    /\ wpc = "finally"
    /\ turn_in.mode = "robot" /\ turn_in.switch = "agent"
    /\ current_mode = "agent"
    /\ \A i \in 1..Len(turn_out) : turn_out[i].ptype = "AUDIO_OUT"

(* ------------------------------------------------------------------ *)
(* Functions called directly (FnSpec)                                 *)
(* ------------------------------------------------------------------ *)

\* RobotMode.process_with_llm(text, current_angle) is called with a non-empty
\* text: has_llm is bool(self.llm), reply what the LLM path meets, cmd the
\* entry of actions_config the text matches; raised says whether the try
\* block raised, ret is the action returned
CallProcessWithLlm ==
    /\ call = NoCall
    /\ \E has_llm \in BOOLEAN, reply \in LlmReplies, cmd \in Commands,
          current_angle \in {SERVO_MIN, DEFAULT_ANGLE_CENTER, SERVO_MAX} :
          call' = [fn |-> "process_with_llm", has_llm |-> has_llm,
                   reply |-> reply, cmd |-> cmd, current_angle |-> current_angle,
                   raised |-> has_llm /\ determine_action(reply).raised,
                   ret |-> process_with_llm(has_llm, reply, cmd, current_angle)]
    /\ UNCHANGED <<gateVars, queueVars, sessionVars, gateUnitVars, queueUnitVars,
                   serverVars, sendVars>>

\* C26: whenever the LLM path of process_with_llm raises, the action
\* returned is NOOP.
C26_LlmErrorYieldsNoop ==
    (call.fn = "process_with_llm" /\ call.raised) => call.ret.action = "NOOP"

(* utils.clean_text on strings over a small alphabet. A string is a       *)
(* sequence of characters; "FF0C" is the fullwidth comma, "3002" the      *)
(* ideographic full stop, "2026" the ellipsis.                            *)
MaxTextLen == 4
Alphabet == {"a", " ", ",", "FF0C", "."}
Texts == UNION {[1..n -> Alphabet] : n \in 0..MaxTextLen}

\* [,，]
CommaChars == {",", "FF0C"}
\* [,，。.!?]
RepeatChars == {",", "FF0C", "3002", ".", "!", "?"}
\* ",，。.!?…"
PunctChars == RepeatChars \cup {"2026"}
\* \s
SpaceChars == {" "}

Drop(t, n) == SubSeq(t, n + 1, Len(t))

\* length of the longest prefix of t made of characters of S
RECURSIVE PrefixLen(_, _)
PrefixLen(t, S) ==
    IF t = <<>> \/ t[1] \notin S THEN 0 ELSE 1 + PrefixLen(Tail(t), S)

\* length of the longest suffix of t made of characters of S
RECURSIVE SuffixLen(_, _)
SuffixLen(t, S) ==
    IF t = <<>> \/ t[Len(t)] \notin S THEN 0
    ELSE 1 + SuffixLen(SubSeq(t, 1, Len(t) - 1), S)

\* str.strip()
strip(t) ==
    LET a == PrefixLen(t, SpaceChars) IN
    IF a = Len(t) THEN <<>>
    ELSE SubSeq(t, a + 1, Len(t) - SuffixLen(t, SpaceChars))

\* re.sub(r"[,，]{3,}", ",", t)
RECURSIVE collapse_commas(_)
collapse_commas(t) ==
    IF t = <<>> THEN <<>>
    ELSE LET n == PrefixLen(t, CommaChars) IN
         IF n >= 3 THEN <<",">> \o collapse_commas(Drop(t, n))
         ELSE IF n > 0 THEN SubSeq(t, 1, n) \o collapse_commas(Drop(t, n))
              ELSE <<t[1]>> \o collapse_commas(Tail(t))

\* re.sub(r"([,，。.!?])\1{1,}", r"\1", t)
RECURSIVE collapse_repeats(_)
collapse_repeats(t) ==
    IF t = <<>> THEN <<>>
    ELSE IF t[1] \in RepeatChars
         THEN <<t[1]>> \o collapse_repeats(Drop(t, PrefixLen(t, {t[1]})))
         ELSE <<t[1]>> \o collapse_repeats(Tail(t))

\* re.sub(r"\s+", " ", t)
RECURSIVE collapse_spaces(_)
collapse_spaces(t) ==
    IF t = <<>> THEN <<>>
    ELSE IF t[1] \in SpaceChars
         THEN <<" ">> \o collapse_spaces(Drop(t, PrefixLen(t, SpaceChars)))
         ELSE <<t[1]>> \o collapse_spaces(Tail(t))

\* sum(1 for ch in t if ch in ",，。.!?…")
RECURSIVE punct_count(_)
punct_count(t) ==
    IF t = <<>> THEN 0
    ELSE (IF t[1] \in PunctChars THEN 1 ELSE 0) + punct_count(Tail(t))

\* re.sub(r"[,，]+$", "", t)
strip_trailing_commas(t) == SubSeq(t, 1, Len(t) - SuffixLen(t, CommaChars))

\* utils.clean_text(text), x for text
clean_text(x) ==
    LET t1 == strip(x)
        t2 == collapse_commas(t1)
        t3 == collapse_repeats(t2)
        t4 == strip(collapse_spaces(t3))
    IN IF Len(t4) >= 8 /\ 100 * punct_count(t4) > 35 * Len(t4)
       THEN <<>>
       ELSE strip(strip_trailing_commas(t4))

\* clean_text(x) is called, and clean_text again on what it returned
CallCleanText ==
    /\ call = NoCall
    /\ \E x \in Texts :
          call' = [fn |-> "clean_text", x |-> x, ret |-> clean_text(x),
                   again |-> clean_text(clean_text(x))]
    /\ UNCHANGED <<gateVars, queueVars, sessionVars, gateUnitVars, queueUnitVars,
                   serverVars, sendVars>>

\* C27: clean_text(clean_text(x)) == clean_text(x) for every string x.
C27_CleanTextIdempotent ==
    call.fn = "clean_text" => call.again = call.ret

(* AgentMode.merge_audio_chunks and AgentMode.crossfade_audio_boundaries,  *)
(* called at server.py:333-337. Their bodies are not part of this copy of  *)
(* agent_mode.py; they are modelled on samples from the cross-fade rule    *)
(* (linearly complementary ramps over the overlapping samples) and from    *)
(* tests/test_agent_mode.py:38-67. A chunk is a sequence of samples.       *)
MaxFadeChunks == 3
MaxChunkLen == 4
\* sample values of the chunks, constant within a chunk as in the tests
Levels == {0 - 8, 8}
Chunk(len, level) == [i \in 1..len |-> level]

\* the overlapping samples: a fades out while b fades in
blend(a, b) ==
    [i \in 1..Len(a) |-> (a[i] * (Len(a) + 1 - i) + b[i] * i) \div (Len(a) + 1)]

\* a variant: the two segments are concatenated, nothing overlaps
crossfade_concat(a, b, o) == a \o b

\* cross-fade of two segments over o samples
crossfade(a, b, o) ==
    SubSeq(a, 1, Len(a) - o)
    \o blend(SubSeq(a, Len(a) - o + 1, Len(a)), SubSeq(b, 1, o))
    \o Drop(b, o)

\* merge_audio_chunks: the chunks cross-faded into one buffer, left to right
RECURSIVE merge_audio_chunks(_, _)
merge_audio_chunks(chunks, o) ==
    IF Len(chunks) = 0 THEN <<>>
    ELSE IF Len(chunks) = 1 THEN chunks[1]
         ELSE merge_audio_chunks(
                  <<crossfade(chunks[1], chunks[2], o)>> \o Drop(chunks, 2), o)

\* crossfade_audio_boundaries: as many chunks as given; at each boundary the
\* earlier chunk gives up its last o samples, which are blended into the
\* first o samples of the later chunk
crossfade_audio_boundaries(chunks, o) ==
    [i \in 1..Len(chunks) |->
        LET body == IF i < Len(chunks)
                    THEN SubSeq(chunks[i], 1, Len(chunks[i]) - o)
                    ELSE chunks[i]
        IN IF i = 1 THEN body
           ELSE LET prev == chunks[i - 1]
                    both == crossfade(SubSeq(prev, Len(prev) - o + 1, Len(prev)),
                                      chunks[i], o)
                IN SubSeq(both, 1, Len(both) - (Len(chunks[i]) - Len(body)))]

RECURSIVE TotalLen(_)
TotalLen(chunks) ==
    IF chunks = <<>> THEN 0 ELSE Len(chunks[1]) + TotalLen(Tail(chunks))

\* k chunks of at least o samples each are merged, and cross-faded in place
CallCrossfade ==
    /\ call = NoCall
    /\ \E k \in 1..MaxFadeChunks :
       \E lens \in [1..k -> 2..MaxChunkLen], levels \in [1..k -> Levels] :
       \E o \in 0..2 :
          /\ \A i \in 1..k : o <= lens[i]
          /\ LET chunks == [i \in 1..k |-> Chunk(lens[i], levels[i])] IN
             call' = [fn |-> "crossfade", chunks |-> chunks, o |-> o,
                      merged |-> merge_audio_chunks(chunks, o),
                      crossed |-> crossfade_audio_boundaries(chunks, o)]
    /\ UNCHANGED <<gateVars, queueVars, sessionVars, gateUnitVars, queueUnitVars,
                   serverVars, sendVars>>

\* C28: k chunks of lengths L1..Lk cross-faded with an overlap of o samples
\* at each boundary come to (L1 + ... + Lk) - (k - 1) * o samples, both when
\* merged into one buffer and when kept as k chunks.
C28_CrossfadeLength ==
    call.fn = "crossfade" =>
       LET k == Len(call.chunks)
           n == TotalLen(call.chunks) - (k - 1) * call.o
       IN /\ Len(call.merged) = n
          /\ Len(call.crossed) = k
          /\ TotalLen(call.crossed) = n

\* C28 witness: three chunks, two boundaries of two samples each
C28_Witness ==
    /\ call.fn = "crossfade"
    /\ Len(call.chunks) = 3 /\ call.o = 2
    /\ Len(call.merged) = TotalLen(call.chunks) - 4
    /\ TotalLen(call.crossed) = Len(call.merged)

(* LLMClient.chat. A reply of _chat_once is (content, done_reason,         *)
(* thinking), or the call raises (HTTP error, error line of the stream);   *)
(* contents are "" or a tag that tells the replies apart.                  *)
ChatReplies ==
    {[raises |-> TRUE, content |-> "", done_reason |-> "", thinking |-> ""]}
    \cup [raises : {FALSE}, content : {"", "text"}, done_reason : {"stop", "length"},
          thinking : {"", "trace"}]

\* what chat returned and the HTTP calls it made, in order
ChatResult(ret, calls) == [ret |-> ret, calls |-> calls]

\* a slip: a truncated retry is retried again
chat_retries_again(think, first, retry, fallback) ==
    IF first.raises THEN ChatResult("", <<"chat">>)
    ELSE IF first.content # "" /\ first.done_reason = "length"
         THEN IF retry.raises THEN ChatResult("", <<"chat", "chat_longer">>)
              ELSE IF retry.done_reason = "length"
                   THEN ChatResult(first.content,
                                   <<"chat", "chat_longer", "chat_longer">>)
                   ELSE ChatResult(IF retry.content # "" THEN "retry:" \o retry.content
                                   ELSE first.content, <<"chat", "chat_longer">>)
         ELSE ChatResult(first.content, <<"chat">>)

\* LLMClient.chat(messages, temperature, max_tokens, think) with think already
\* defaulted: first is the reply of the first _chat_once, retry the reply of
\* the second one if one is made, fallback what _generate_fallback returns
\* (it catches its own exceptions and returns "")
chat(think, first, retry, fallback) ==
    IF first.raises THEN ChatResult("", <<"chat">>)
    ELSE IF first.content # "" /\ first.done_reason = "length"
         THEN IF retry.raises THEN ChatResult("", <<"chat", "chat_longer">>)
              ELSE ChatResult(IF retry.content # "" THEN "retry:" \o retry.content
                              ELSE first.content, <<"chat", "chat_longer">>)
         ELSE IF first.content = ""
              THEN IF first.thinking # "" /\ think
                   THEN IF retry.raises
                        THEN ChatResult("", <<"chat", "chat_think_false">>)
                        ELSE IF retry.content # ""
                             THEN ChatResult("retry:" \o retry.content,
                                             <<"chat", "chat_think_false">>)
                             ELSE ChatResult(fallback, <<"chat", "chat_think_false",
                                                         "generate">>)
                   ELSE ChatResult(fallback, <<"chat", "generate">>)
              ELSE ChatResult(first.content, <<"chat">>)

CallChat ==
    /\ call = NoCall
    /\ \E think \in BOOLEAN, first \in ChatReplies, retry \in ChatReplies,
          fallback \in {"", "generated"} :
          call' = [fn |-> "chat", think |-> think, first |-> first,
                   retry |-> retry, fallback |-> fallback,
                   result |-> chat(think, first, retry, fallback)]
    /\ UNCHANGED RecvRest

\* how often x occurs in the sequence s
Count(s, x) == Cardinality({i \in 1..Len(s) : s[i] = x})

\* C31: one call of LLMClient.chat makes the first streaming request, at
\* most one retry for a truncated reply, at most one retry with think=false
\* (only for an empty reply with a thinking trace), and at most one generate
\* request, the last only when the content is still empty after the chat
\* requests; it makes at most three requests in all, and when a request
\* raises it returns "".
C31_ChatBoundedRetries ==
    call.fn = "chat" =>
       LET calls == call.result.calls IN
       /\ calls[1] = "chat" /\ Count(calls, "chat") = 1
       /\ Count(calls, "chat_longer") <= 1
       /\ Count(calls, "chat_think_false") <= 1
       /\ Count(calls, "generate") <= 1
       /\ Len(calls) <= 3
       /\ Count(calls, "chat_longer") = 1
          => call.first.content # "" /\ call.first.done_reason = "length"
       /\ Count(calls, "chat_think_false") = 1
          => call.first.content = "" /\ call.first.thinking # "" /\ call.think
       /\ Count(calls, "generate") = 1
          => /\ calls[Len(calls)] = "generate"
             /\ call.first.content = ""
             /\ Count(calls, "chat_think_false") = 1 => call.retry.content = ""
       /\ (call.first.raises \/ (Len(calls) >= 2 /\ calls[2] # "generate"
                                 /\ call.retry.raises))
          => call.result.ret = ""

\* C31 witness: an empty reply with a thinking trace, an empty retry with
\* think=false, then the generate fallback, whose text is returned
C31_Witness ==
    /\ call.fn = "chat"
    /\ call.result.calls = <<"chat", "chat_think_false", "generate">>
    /\ call.result.ret = "generated"

(* ------------------------------------------------------------------ *)
(* AgentMode.split_text_for_tts                                       *)
(* ------------------------------------------------------------------ *)

\* the lengths of the texts given to the function: empty, one character,
\* and the two thresholds of the code with their successors
SplitLens == {0, 1, 44, 45, 92, 93}
MaxChunksArg == 3

\* ".?!,;:。！？"
SplitPunct == {".", "?", "!", ",", ";", ":", "3002", "FF01", "FF1F"}

\* a text of n letters, with the character kp at position p and then a
\* blank at position q (p = q leaves the blank)
SplitText(n, p, kp, q) ==
    [i \in 1..n |-> IF i = q THEN " " ELSE IF i = p THEN kp ELSE "a"]

\* " ".join((text or "").split()).strip()
normalize(t) == strip(collapse_spaces(t))

\* the largest member of a non-empty set of integers
MaxOf(S) == CHOOSE i \in S : \A j \in S : j <= i

\* AgentMode._pick_split_index; indices count from 0 as in the code
pick_split_index(t, lo, hi) ==
    LET max_idx == Max(0, Min(hi, Len(t) - 1))
        min_idx == Max(0, Min(lo, max_idx))
        puncts == {i \in min_idx..max_idx : t[i + 1] \in SplitPunct}
        spaces == {i \in min_idx..max_idx : t[i + 1] \in SpaceChars}
    IN IF puncts # {} THEN MaxOf(puncts) + 1
       ELSE IF spaces # {} THEN MaxOf(spaces) + 1
       ELSE max_idx + 1

\* a slip: the cap by max_chunks is forgotten
target_chunks_uncapped(n, m) == IF n <= 92 THEN 2 ELSE 3

\* target_chunks = min(2 if len(normalized) <= 92 else 3, max_chunks)
target_chunks(n, m) == Min(IF n <= 92 THEN 2 ELSE 3, m)

\* the while loop of split_text_for_tts and the tail after it
RECURSIVE split_loop(_, _, _, _)
split_loop(t, start, remaining_chunks, chunks) ==
    LET text_len == Len(t) IN
    IF remaining_chunks > 1 /\ start < text_len
    THEN LET remaining_len == text_len - start
             target_len == remaining_len \div remaining_chunks
             min_idx == start + Max(10, target_len - 10)
             max_idx == start + Min(remaining_len - 10, target_len + 12)
             narrow == max_idx <= min_idx
             max_idx2 == IF narrow THEN Min(start + target_len, text_len - 1)
                         ELSE max_idx
             min_idx2 == IF narrow THEN Max(start + 6, max_idx2 - 6) ELSE min_idx
             split_idx == pick_split_index(t, min_idx2, max_idx2)
             piece == strip(SubSeq(t, start + 1, split_idx))
             next == split_idx + PrefixLen(Drop(t, split_idx), SpaceChars)
         IN split_loop(t, next, remaining_chunks - 1,
                       IF piece # <<>> THEN Append(chunks, piece) ELSE chunks)
    ELSE LET tail == strip(Drop(t, start)) IN
         IF tail # <<>> THEN Append(chunks, tail) ELSE chunks

\* the merge of the pieces shorter than 6 characters into their predecessor
RECURSIVE merge_short(_, _)
merge_short(merged, chunks) ==
    IF chunks = <<>> THEN merged
    ELSE LET piece == Head(chunks) IN
         IF merged # <<>> /\ Len(piece) < 6
         THEN merge_short([merged EXCEPT ![Len(merged)] = strip(@ \o <<" ">> \o piece)],
                          Tail(chunks))
         ELSE merge_short(Append(merged, piece), Tail(chunks))

\* AgentMode.split_text_for_tts(text, max_chunks), x for text
split_text_for_tts(x, max_chunks) ==
    LET normalized == normalize(x)
        m == Max(1, max_chunks)
    IN IF normalized = <<>> THEN <<>>
       ELSE IF Len(normalized) <= 44 \/ m = 1 THEN <<normalized>>
       ELSE LET chunks == split_loop(normalized, 0, target_chunks(Len(normalized), m),
                                     <<>>)
            IN IF chunks = <<>> THEN <<normalized>>
               ELSE merge_short(<<>>, chunks)

CallSplitText ==
    /\ call = NoCall
    /\ \E n \in SplitLens :
       \E p \in 1..Max(1, n), q \in 1..Max(1, n), kp \in {".", " "},
          max_chunks \in 0..MaxChunksArg :
          LET x == SplitText(n, p, kp, q) IN
          call' = [fn |-> "split_text_for_tts", text |-> x, max_chunks |-> max_chunks,
                   normalized |-> normalize(x),
                   chunks |-> split_text_for_tts(x, max_chunks)]
    /\ UNCHANGED RecvRest

SplitSpec == Init /\ [][CallSplitText]_vars

\* the characters of a list of chunks, in order
RECURSIVE Flatten(_)
Flatten(chunks) == IF chunks = <<>> THEN <<>> ELSE Head(chunks) \o Flatten(Tail(chunks))

\* a text without its whitespace
NoSpace(t) == SelectSeq(t, LAMBDA c : c \notin SpaceChars)

\* what the function has to return for a normalized text of n characters
\* when the chunk count asked for counts as m
GoodSplit(n, m, single) ==
    IF single
    THEN call.chunks = <<call.normalized>>
    ELSE /\ Len(call.chunks) \in 1..Min(m, IF n <= 92 THEN 2 ELSE 3)
         /\ NoSpace(Flatten(call.chunks)) = NoSpace(call.normalized)
         /\ \A i \in 2..Len(call.chunks) : Len(call.chunks[i]) >= 6

\* C40 as claimed: a text of at most 44 normalized characters, or
\* max_chunks == 1, gives one chunk; any other call gives between 1 and
\* min(max_chunks, 2 if length <= 92 else 3) chunks that hold the normalized
\* text up to whitespace, none but the first shorter than 6 characters.
C40_SplitAsClaimed ==
    call.fn = "split_text_for_tts" =>
        GoodSplit(Len(call.normalized), call.max_chunks,
                  Len(call.normalized) <= 44 \/ call.max_chunks = 1)

\* C40 amended: the same for a text that is not empty after normalization
\* and with a max_chunks below 1 counted as 1; a text that is empty after
\* normalization gives no chunk.
C40_SplitTextChunks ==
    call.fn = "split_text_for_tts" =>
        LET n == Len(call.normalized)
            m == Max(1, call.max_chunks)
        IN IF n = 0 THEN call.chunks = <<>>
           ELSE GoodSplit(n, m, n <= 44 \/ m = 1)

\* C40 witness: a text of more than 92 characters was cut into 3 chunks, the
\* first cut after its punctuation mark
C40_Witness ==
    /\ call.fn = "split_text_for_tts"
    /\ Len(call.normalized) > 92
    /\ Len(call.chunks) = 3
    /\ call.chunks[1][Len(call.chunks[1])] = "."

FnNext == CallProcessWithLlm \/ CallCleanText \/ CallCrossfade \/ CallChat

FnSpec == Init /\ [][FnNext]_vars

(* ------------------------------------------------------------------ *)
(* recv_exact called directly (RecvSpec)                              *)
(* ------------------------------------------------------------------ *)

\* the n of the calls, and their max_timeouts
MaxRecvBytes == 3
MaxTimeouts == 3

\* recv_exact(conn, n, max_timeouts) is called: buf = b"", timeout_count = 0.
\* buf is len(buf); events lists what each conn.recv did, 0 for a timeout and
\* k > 0 for a chunk of k bytes
RecvCall ==
    /\ call = NoCall
    /\ \E n \in 0..MaxRecvBytes, max_timeouts \in 1..MaxTimeouts :
          call' = [fn |-> "recv_exact", n |-> n, max_timeouts |-> max_timeouts,
                   buf |-> 0, timeout_count |-> 0, pc |-> "while",
                   ret |-> "none", why |-> "none", events |-> <<>>]
    /\ UNCHANGED RecvRest

Running(pc) == call.fn = "recv_exact" /\ call.pc = pc

\* while len(buf) < n: ... return buf
RecvWhile ==
    /\ Running("while")
    /\ call' = IF call.buf < call.n
               THEN [call EXCEPT !.pc = "recv"]
               ELSE [call EXCEPT !.pc = "done", !.ret = "bytes"]
    /\ UNCHANGED RecvRest

\* conn.recv raises socket.timeout: the socket timeout set by
\* handle_connection has passed without a byte
RecvTimeout ==
    /\ Running("recv")
    /\ LET timeout_count == call.timeout_count + 1 IN
       call' = IF timeout_count >= call.max_timeouts
               THEN [call EXCEPT !.timeout_count = timeout_count,
                                 !.events = Append(@, 0),
                                 !.pc = "done", !.ret = "None", !.why = "timeout"]
               ELSE [call EXCEPT !.timeout_count = timeout_count,
                                 !.events = Append(@, 0), !.pc = "while"]
    /\ UNCHANGED RecvRest

\* conn.recv raises ConnectionResetError, ConnectionAbortedError or OSError
RecvError ==
    /\ Running("recv")
    /\ call' = [call EXCEPT !.pc = "done", !.ret = "None", !.why = "error"]
    /\ UNCHANGED RecvRest

\* conn.recv returns b"": the peer has closed
RecvEof ==
    /\ Running("recv")
    /\ call' = [call EXCEPT !.pc = "done", !.ret = "None", !.why = "eof"]
    /\ UNCHANGED RecvRest

\* a slip: the timeout counter is not reset when data arrives
RecvDataNoReset ==
    /\ Running("recv")
    /\ \E k \in 1..(call.n - call.buf) :
          call' = [call EXCEPT !.buf = @ + k,
                               !.events = Append(@, k), !.pc = "while"]
    /\ UNCHANGED RecvRest

\* conn.recv(n - len(buf)) returns a chunk of 1 to n - len(buf) bytes
RecvData ==
    /\ Running("recv")
    /\ \E k \in 1..(call.n - call.buf) :
          call' = [call EXCEPT !.timeout_count = 0, !.buf = @ + k,
                               !.events = Append(@, k), !.pc = "while"]
    /\ UNCHANGED RecvRest

RecvNext ==
    \/ RecvCall
    \/ RecvWhile
    \/ RecvTimeout
    \/ RecvError
    \/ RecvEof
    \/ RecvData

\* every conn.recv returns or raises within the socket timeout
RecvSpec == Init /\ [][RecvNext]_vars /\ WF_vars(RecvNext)

\* the timeouts at the end of events, since the last chunk
RECURSIVE TrailingTimeouts(_)
TrailingTimeouts(ev) ==
    IF ev = <<>> \/ ev[Len(ev)] # 0 THEN 0
    ELSE 1 + TrailingTimeouts(SubSeq(ev, 1, Len(ev) - 1))

\* C29: recv_exact returns exactly n bytes or None. It returns None only
\* when the peer closed, the connection failed, or max_timeouts timeouts
\* came one after another with no byte in between: every chunk sets the
\* count back, so a peer that keeps delivering is never dropped by timeout
\* and the call never waits through more than max_timeouts timeouts in a
\* row. Every call returns, so a peer that stays silent is dropped.
C29_RecvExact ==
    /\ [](call.fn = "recv_exact" =>
            /\ call.buf <= call.n
            /\ call.timeout_count = TrailingTimeouts(call.events)
            /\ call.timeout_count <= call.max_timeouts
            /\ call.ret = "bytes" => call.buf = call.n
            /\ call.ret = "None" => call.why \in {"eof", "error", "timeout"}
            /\ (call.why = "timeout")
               = (TrailingTimeouts(call.events) >= call.max_timeouts)
            /\ call.pc # "done" => call.ret = "none")
    /\ (call.fn = "recv_exact") ~> Running("done")

\* C29 witness: a timeout, then a byte, then max_timeouts timeouts in a row
\* made the call return None
C29_Witness ==
    /\ call.fn = "recv_exact"
    /\ call.ret = "None" /\ call.why = "timeout"
    /\ call.max_timeouts = 2
    /\ call.events = <<0, 1, 0, 0>>

(* ------------------------------------------------------------------ *)
(* ConnectionManager.accept_loop called directly (AcceptSpec)         *)
(* ------------------------------------------------------------------ *)

\* accept() calls followed
MaxAccepts == 3

\* accept_loop() is called on a listening socket. conn is the number of the
\* connection in hand, open the connections accepted and not yet closed,
\* pending the exception the finally block will let through, events what
\* happened so far
AcceptCall ==
    /\ call = NoCall
    /\ call' = [fn |-> "accept_loop", pc |-> "accept", conn |-> 0, open |-> {},
                pending |-> "none", events |-> <<>>]
    /\ UNCHANGED RecvRest

InLoop(pc) == call.fn = "accept_loop" /\ call.pc = pc

Accepts(ev) == Cardinality({i \in 1..Len(ev) : ev[i] \in {"accepted", "accept_failed"}})

\* conn, addr = self.server_socket.accept()
AcceptConn ==
    /\ InLoop("accept")
    /\ Accepts(call.events) < MaxAccepts
    /\ call' = [call EXCEPT !.pc = "handler", !.conn = @ + 1,
                            !.open = @ \cup {call.conn + 1},
                            !.events = Append(@, "accepted")]
    /\ UNCHANGED RecvRest

\* accept raises an Exception: log, time.sleep(accept_backoff), continue
AcceptFails ==
    /\ InLoop("accept")
    /\ Accepts(call.events) < MaxAccepts
    /\ call' = [call EXCEPT !.pc = "backoff",
                            !.events = Append(@, "accept_failed")]
    /\ UNCHANGED RecvRest

AcceptBackoff ==
    /\ InLoop("backoff")
    /\ call' = [call EXCEPT !.pc = "accept"]
    /\ UNCHANGED RecvRest

\* accept raises KeyboardInterrupt: break
AcceptInterrupt ==
    /\ InLoop("accept")
    /\ call' = [call EXCEPT !.pc = "returned",
                            !.events = Append(@, "interrupt")]
    /\ UNCHANGED RecvRest

\* a slip: the socket is closed after the try statement, not in a finally
\* block, so a handler that raises leaves it open
HandlerEndsNoFinally ==
    /\ InLoop("handler")
    /\ \E how \in {"returned", "raised", "interrupted"} :
          call' = [call EXCEPT !.pc = IF how = "returned" THEN "close" ELSE "accept",
                               !.pending = "none",
                               !.events = Append(@, how)]
    /\ UNCHANGED RecvRest

\* self.handler(conn, addr) returns, raises an Exception, which is logged, or
\* raises a KeyboardInterrupt, which "except Exception" does not catch; the
\* finally block runs in each case
HandlerEnds ==
    /\ InLoop("handler")
    /\ \E how \in {"returned", "raised", "interrupted"} :
          call' = [call EXCEPT !.pc = "close",
                               !.pending = IF how = "interrupted"
                                           THEN "KeyboardInterrupt" ELSE "none",
                               !.events = Append(@, how)]
    /\ UNCHANGED RecvRest

\* finally: conn.close(), whose own exception is swallowed, the log line and
\* time.sleep(0.1); then the pending exception leaves accept_loop, or the
\* loop goes on
AcceptClose ==
    /\ InLoop("close")
    /\ \E close_raises \in BOOLEAN :
          call' = [call EXCEPT !.pc = IF call.pending = "none"
                                      THEN "accept" ELSE "raised",
                               !.open = @ \ {call.conn},
                               !.events = Append(@, IF close_raises
                                                    THEN "close_failed"
                                                    ELSE "closed")]
    /\ UNCHANGED RecvRest

AcceptNext ==
    \/ AcceptCall
    \/ AcceptConn
    \/ AcceptFails
    \/ AcceptBackoff
    \/ AcceptInterrupt
    \/ HandlerEnds
    \/ AcceptClose

AcceptSpec == Init /\ [][AcceptNext]_vars

\* C30: the socket of a connection is closed when its handler has ended,
\* whether it returned or raised, before the next accept; an accept that
\* raises an Exception leads to the backoff and to another accept; the loop
\* ends only on a KeyboardInterrupt.
C30_AcceptorResilience ==
    /\ [](call.fn = "accept_loop" =>
            /\ call.open \subseteq {call.conn}
            /\ call.pc \in {"accept", "backoff", "returned", "raised"}
               => call.open = {}
            /\ call.pc \in {"returned", "raised"}
               => call.events[Len(call.events)] = "interrupt"
                  \/ call.pending = "KeyboardInterrupt")
    /\ [][call.fn = "accept_loop" /\ call' # call =>
            /\ call.pc = "handler" => call'.pc = "close"
            /\ (call.pc = "close" /\ call.pending = "none")
               => call'.pc = "accept" /\ call'.open = {}
            /\ call.pc = "backoff" => call'.pc = "accept"
            /\ (call.pc = "accept" /\ call'.pc # "returned")
               => call'.pc \in {"handler", "backoff"}]_vars

\* C30 witness: after a failed accept and a handler that raised, the loop
\* has accepted the next connection with no other socket open
C30_Witness ==
    /\ InLoop("handler")
    /\ call.events = <<"accept_failed", "accepted", "raised", "closed", "accepted">>
    /\ call.open = {2}

(* ------------------------------------------------------------------ *)
(* The gate and the jobs of a session (Spec)                          *)
(* ------------------------------------------------------------------ *)

\* C32: whenever an utterance job waits in the STT queue or is in the hands
\* of the worker (up to its mark_idle), the busy flag is set; a START that
\* arrives in such a state is rejected: it allocates no sid and opens a
\* dropped stream.
C32_BusyWhileJobInFlight ==
    /\ [](InFlight > 0 => input_gate.busy)
    /\ [][(InFlight > 0 /\ n_starts' = n_starts + 1) =>
            /\ active_sid' = NoSid
            /\ state'.sid = state.sid
            /\ input_gate'.drop_stream]_vars

\* C32 witness: a START was rejected while the job of the stream before it
\* was still waiting in the queue
C32_Witness ==
    /\ JobsQueued = 1
    /\ wpc = "get"
    /\ input_gate.busy
    /\ Dropping
    /\ n_starts = 2

(* ------------------------------------------------------------------ *)
(* The END block against a full queue (EndSpec)                       *)
(* ------------------------------------------------------------------ *)

\* The reader has taken the accept decision for utterance stt_maxsize + 1 and
\* stands before mark_busy, with stt_maxsize earlier jobs still in the queue.
\* The gate keeps a session away from such a state; it is where
\* JobQueue.put(..., drop_oldest=True) can return False.
EndInit ==
    /\ input_gate = InputGate
    /\ stt_queue = [i \in 1..stt_maxsize |-> <<i, 24000>>]
    /\ put_pc = "done"
    /\ put_item = <<stt_maxsize + 1, 24000>>
    /\ queued = FALSE
    /\ state = [sid |-> stt_maxsize + 1, current_angle |-> 90]
    /\ stop_event = FALSE
    /\ current_mode = "agent"
    /\ rpc = "mark_busy"
    /\ audio_buf = 24000
    /\ active_sid = stt_maxsize + 1
    /\ wpc = "loop"
    /\ job = SENTINEL
    /\ text = FALSE
    /\ chunks_left = 0
    /\ turn_out = <<>>
    /\ turn_in = NoTurn
    /\ n_starts = stt_maxsize + 1
    /\ n_utt = stt_maxsize + 1
    /\ accepted = [i \in 1..stt_maxsize |-> i]
    /\ processed = <<>>
    /\ evicted = <<>>
    /\ idle_calls = 0
    /\ GateUnitInit
    /\ QueueUnitInit
    /\ ServerInit
    /\ SendInit
    /\ call = NoCall

EndSpec == EndInit /\ [][Next]_vars

C34_OverflowForcesEnd ==
    /\ [][rpc = "recv" /\ audio_buf' > max_audio_bytes =>
            /\ rpc' = "mark_busy"
            /\ put_item' = <<state.sid, audio_buf'>>
            /\ ~has_active_stream(input_gate')
            /\ n_utt' = n_utt + 1
            /\ ~stop_event']_vars
    /\ [](audio_buf > max_audio_bytes => rpc \in {"mark_busy", "put", "put_done"})
    /\ [](rpc = "put" => input_gate.busy)
    /\ [](rpc = "put_done" => queued)
    /\ [][rpc = "recv" /\ ~has_active_stream(input_gate) /\ n_starts' = n_starts =>
            /\ put_item' = put_item
            /\ accepted' = accepted
            /\ audio_buf' = 0
            /\ n_utt' = n_utt
            /\ rpc' # "mark_busy"]_vars

\* C34 witness: the job of a force-ended stream is in the queue, the reader is
\* back at recv_exact with no active stream and the gate busy
C34_Witness ==
    /\ rpc = "recv"
    /\ put_item # SENTINEL
    /\ put_item[2] > max_audio_bytes
    /\ stt_queue = <<put_item>>
    /\ accepted = <<put_item[1]>>
    /\ ~has_active_stream(input_gate)
    /\ input_gate.busy
    /\ ~stop_event

(* ------------------------------------------------------------------ *)
(* The end of a session whose queue may be full (EndLiveSpec)         *)
(* ------------------------------------------------------------------ *)

\* EndSpec with the scheduler's fairness for the worker: its get returns
\* within its timeout and the external calls of a turn return
EndLiveSpec == EndInit /\ [][Next]_vars /\ WF_vars(Worker)

\* C35: the reader leaves its loop by setting stop_event and then trying to
\* put the sentinel; once stop_event is set the worker reaches the end of
\* worker(), whether or not the sentinel went into the queue.
C35_WorkerExitsAfterStop ==
    /\ [][rpc = "recv" /\ rpc' \notin {"recv", "mark_busy"} =>
            stop_event' /\ rpc' = "sentinel"]_vars
    /\ [](rpc \in {"sentinel", "join", "closed"} => stop_event)
    /\ (stop_event ~> wpc = "exit")
    /\ [][wpc = "exit" => wpc' = "exit"]_vars

\* C35 witness: the sentinel met a full queue and was not enqueued, and the
\* worker has still left its loop
C35_Witness ==
    /\ rpc \in {"join", "closed"}
    /\ ~queued
    /\ SENTINEL \notin Range(stt_queue)
    /\ wpc = "exit"

\* C36: when the worker has left worker(), every job that was enqueued
\* (none is enqueued after the disconnect) has been dequeued by it.
C36_WorkerDrainsBeforeExit ==
    wpc = "exit" => Range(accepted) \subseteq Range(processed)

(* ------------------------------------------------------------------ *)
(* The send loop of a reply of several audio chunks (ReplySpec)       *)
(* ------------------------------------------------------------------ *)

\* prepare_tts_chunks(response, max_chunks=3)
max_chunks == 3

\* The worker stands before the send loop of the first turn with two or
\* three audio payloads; the reader has enqueued that one job. A session
\* gets here only with a reply of more than 44 characters.
ReplyInit ==
    /\ input_gate = mark_busy(InputGate)
    /\ stt_queue = <<>>
    /\ put_pc = "done"
    /\ put_item = <<1, 24000>>
    /\ queued = TRUE
    /\ state = [sid |-> 1, current_angle |-> 90]
    /\ stop_event = FALSE
    /\ current_mode = "agent"
    /\ rpc = "recv"
    /\ audio_buf = 0
    /\ active_sid = NoSid
    /\ wpc = "send"
    /\ job = <<1, 24000>>
    /\ text = TRUE
    /\ chunks_left \in 2..max_chunks
    /\ turn_out = <<>>
    /\ turn_in = [NoTurn EXCEPT !.qc = "pass", !.dispatched = TRUE, !.mode = "agent",
                                !.reply_len = 2, !.clean = TRUE, !.tts_ok = TRUE]
    /\ n_starts = 1
    /\ n_utt = 1
    /\ accepted = <<1>>
    /\ processed = <<1>>
    /\ evicted = <<>>
    /\ idle_calls = 0
    /\ GateUnitInit
    /\ QueueUnitInit
    /\ ServerInit
    /\ SendInit
    /\ call = NoCall

ReplySpec == ReplyInit /\ [][Next]_vars

\* C37: a send_audio that returns False ends the send loop: the step sends
\* nothing, leaves no chunk to send and goes to the finally, and the loop is
\* never at a further chunk after a failed send; the finally marks the gate
\* idle and returns to the loop head; only the reader's disconnect stops
\* the session.
C37_FailedChunkEndsReply ==
    /\ [][wpc = "send" /\ ~turn_in'.sent_ok =>
            /\ turn_out' = turn_out
            /\ chunks_left' = 0
            /\ wpc' = "finally"]_vars
    /\ [](wpc = "send" => turn_in.sent_ok)
    /\ [][wpc = "finally" /\ wpc' # wpc =>
            ~input_gate'.busy /\ wpc' = "loop"]_vars
    /\ [][~stop_event /\ stop_event' => rpc = "recv" /\ rpc' = "sentinel"]_vars

\* C37 witness: the first chunk of the reply went out, a later one failed,
\* and the worker stands in the finally with nothing left to send and the
\* session open
C37_Witness ==
    /\ wpc = "finally"
    /\ processed = <<1>>
    /\ ~turn_in.sent_ok
    /\ turn_out = <<Packet("AUDIO_OUT", "reply", NoAngle)>>
    /\ chunks_left = 0
    /\ ~stop_event

\* C38: while the open stream is a rejected one, can_accept_audio is false
\* and the reader holds no audio and no sid for it; the worker's mark_idle
\* leaves the stream rejected; the rejection ends only with the reader's END
\* step, which takes the drop decision: the stream is closed, nothing is
\* prepared for the queue and the reader reads the next packet.
C38_RejectedStreamStaysDropped ==
    /\ [](input_gate.drop_stream =>
            /\ has_active_stream(input_gate)
            /\ ~can_accept_audio(input_gate)
            /\ audio_buf = 0
            /\ active_sid = NoSid)
    /\ [][Dropping /\ input_gate.busy /\ ~input_gate'.busy => Dropping']_vars
    /\ [][Dropping /\ ~Dropping' =>
            /\ rpc = "recv" /\ rpc' = "recv"
            /\ end_stream(input_gate).ret = DECISION_DROP
            /\ input_gate' = end_stream(input_gate).gate
            /\ n_utt' = n_utt + 1
            /\ audio_buf' = 0
            /\ UNCHANGED <<stt_queue, put_item, queued, accepted, state>>]_vars

\* C38 witness: the rejected stream is still open and still rejected after
\* the worker has finished the turn that made the gate busy
C38_Witness ==
    /\ Dropping
    /\ ~input_gate.busy
    /\ TurnsDone = 1
    /\ InFlight = 0
    /\ rpc = "recv"
    /\ n_starts = 2
    /\ n_utt = 1

\* C39: a START that arrives while an accepted stream is being collected is
\* rejected: the stream becomes a dropped one, the buffered audio and the
\* reader's sid are discarded and no new sid is taken; the END of a dropped
\* stream closes it without preparing or enqueuing a job, and the sid taken
\* at the first START stays allocated.
C39_RestartDropsStream ==
    /\ [][can_accept_audio(input_gate) /\ n_starts' = n_starts + 1 =>
            /\ Dropping'
            /\ audio_buf' = 0
            /\ active_sid' = NoSid
            /\ state'.sid = state.sid
            /\ rpc' = "recv"]_vars
    /\ [][Dropping /\ n_utt' = n_utt + 1 =>
            /\ ~has_active_stream(input_gate')
            /\ rpc' = "recv"
            /\ state'.sid = state.sid
            /\ UNCHANGED <<stt_queue, put_item, accepted>>]_vars
    /\ [](Range(accepted) \subseteq 1..state.sid)

\* C39 witness: two STARTs and one END were handled on a gate that was never
\* busy; sid 1 is allocated, the stream is closed and no job was ever made
C39_Witness ==
    /\ n_starts = 2
    /\ n_utt = 1
    /\ state.sid = 1
    /\ put_item = SENTINEL
    /\ accepted = <<>>
    /\ ~has_active_stream(input_gate)
    /\ rpc = "recv"

====
